---- MODULE Spec2Model ----
(***************************************************************************)
(* YouTube WebSub notifier: the subscription store, the subscribe and      *)
(* unsubscribe reconcilers with their dual (test/production) webhook       *)
(* mirroring, the subscription-status lookup and the WebSub callback       *)
(* (verification and notification forwarding).  Spec runs the handlers     *)
(* with a store and a hub that work or fail as a whole; SpecFaulty runs    *)
(* the two reconcilers with a store whose reads and writes may fail and a  *)
(* hub that may fail any of the calls of a request.  SpecCallback runs the *)
(* callback with every verification request and every outcome of the POSTs *)
(* of a notification; SpecConcurrent runs two overlapping subscribe        *)
(* requests, one await on the store at a time; SpecUrl applies the         *)
(* test-to-production and counterpart conversions to a set of URLs;        *)
(* SpecOutbound runs the outbound calls of a request against a remote side *)
(* that may not answer; SpecHub runs the reconcilers and follows the       *)
(* subscriptions the hub holds.                                            *)
(*                                                                         *)
(* Representation.                                                         *)
(*  - A URL is a sequence of tokens.  The literal text "webhook" occurs in *)
(*    a URL only as the token "webhook", and "webhook-test" only as the    *)
(*    tokens "webhook","-test" in a row, so String.includes and            *)
(*    String.replace on these two literals are substring search and        *)
(*    first-occurrence replacement on token sequences.  The empty sequence *)
(*    stands for a missing (undefined, null or empty) URL.                 *)
(*  - A channel ID is a record of what the validator looks at (its type,   *)
(*    its first two characters, its length) and its text.                  *)
(*  - An optional object (a record that find() may not find, a nested dual *)
(*    result that may be null) is a sequence of length 0 or 1.             *)
(*  - The "timestamp" field of a stored record is written by the code and  *)
(*    never read; it is left out of the records.  The timestamp of a       *)
(*    forwarded payload is the time since the notification's first call of *)
(*    forwardToWebhook.                                                    *)
(***************************************************************************)
EXTENDS Integers, Sequences, FiniteSets, TLC

\* Longest channelIds array of a request.
MaxReqLen == 2

----------------------------------------------------------------------------
\* Channel IDs

ChanA == [type |-> "string", head |-> "UC", len |-> 24, id |-> "UC_x5XG1OV2P6uZZ5FSM9Ttw"]
ChanB == [type |-> "string", head |-> "UC", len |-> 24, id |-> "UC1PsYPhJWpgcM88C4txYp1Q"]
ChanBad == [type |-> "string", head |-> "PL", len |-> 24, id |-> "PL_x5XG1OV2P6uZZ5FSM9Ttw"]
ChanShort == [type |-> "string", head |-> "UC", len |-> 23, id |-> "UC_x5XG1OV2P6uZZ5FSM9Tt"]
ChanNum == [type |-> "number", head |-> "", len |-> 0, id |-> "12345"]

ValidChannels == {ChanA, ChanB}

\* Mutant: only the prefix is tested.
isValidYouTubeChannelId_PrefixOnly(channelId) ==
    /\ channelId.type = "string"
    /\ channelId.head = "UC"

isValidYouTubeChannelId(channelId) ==
    /\ channelId.type = "string"
    /\ channelId.head = "UC"
    /\ channelId.len = 24

----------------------------------------------------------------------------
\* Sequences as JavaScript arrays

includes(arr, x) == \E i \in 1..Len(arr) : arr[i] = x

RECURSIVE filter(_, _)
\* arr.filter(x => x \in keep), keep given as the set of elements that pass
filter(arr, keep) ==
    IF arr = <<>> THEN <<>>
    ELSE (IF Head(arr) \in keep THEN <<Head(arr)>> ELSE <<>>) \o filter(Tail(arr), keep)

Elems(arr) == {arr[i] : i \in 1..Len(arr)}

RECURSIVE SetSpread(_)
\* [...new Set(arr)]: the first occurrence of each element, in order
SetSpread(arr) ==
    IF arr = <<>> THEN <<>>
    ELSE LET init == SetSpread(SubSeq(arr, 1, Len(arr) - 1))
             x == arr[Len(arr)]
         IN  IF includes(init, x) THEN init ELSE Append(init, x)

SeqsUpTo(S, n) == UNION {[1..k -> S] : k \in 0..n}

----------------------------------------------------------------------------
\* Webhook URLs

WEBHOOK == <<"webhook">>
WEBHOOK_TEST == <<"webhook", "-test">>

UrlHook == <<"https://example.com/", "hook">>
UrlTest == <<"https://your-n8n-instance.com/", "webhook", "-test", "/youtube">>
UrlProd == <<"https://your-n8n-instance.com/", "webhook", "/youtube">>
UrlInvalid == <<"not-a-url">>
NoUrl == <<>>

Origins == {"https://example.com/", "https://your-n8n-instance.com/"}

\* new URL(url) does not throw: the text starts with a scheme and a host
isValidUrl(url) == Len(url) > 0 /\ url[1] \in Origins

\* String.prototype.includes
strIncludes(url, pat) ==
    \E i \in 1..(Len(url) - Len(pat) + 1) : SubSeq(url, i, i + Len(pat) - 1) = pat

\* String.prototype.replace with a string pattern: the first occurrence only
strReplace(url, pat, rep) ==
    IF ~strIncludes(url, pat) THEN url
    ELSE LET occ == {i \in 1..(Len(url) - Len(pat) + 1) :
                        SubSeq(url, i, i + Len(pat) - 1) = pat}
             i == CHOOSE j \in occ : \A k \in occ : j <= k
         IN  SubSeq(url, 1, i - 1) \o rep \o SubSeq(url, i + Len(pat), Len(url))

\* Mutant: the test looks for "webhook-test" followed by "/" and "test".
isTestWebhook_WrongLiteral(webhookUrl) ==
    webhookUrl # NoUrl /\ strIncludes(webhookUrl, <<"webhook", "-test", "/", "test">>)

isTestWebhook(webhookUrl) ==
    webhookUrl # NoUrl /\ strIncludes(webhookUrl, WEBHOOK_TEST)

isProductionWebhook(webhookUrl) ==
    /\ webhookUrl # NoUrl
    /\ strIncludes(webhookUrl, WEBHOOK)
    /\ ~strIncludes(webhookUrl, WEBHOOK_TEST)

isN8nWebhook(webhookUrl) ==
    /\ webhookUrl # NoUrl
    /\ (strIncludes(webhookUrl, WEBHOOK_TEST) \/ strIncludes(webhookUrl, WEBHOOK))

getProductionWebhookUrl(webhookUrl) ==
    IF webhookUrl = NoUrl THEN NoUrl
    ELSE IF strIncludes(webhookUrl, WEBHOOK_TEST)
         THEN strReplace(webhookUrl, WEBHOOK_TEST, WEBHOOK)
         ELSE NoUrl

getTestWebhookUrl(webhookUrl) ==
    IF webhookUrl = NoUrl THEN NoUrl
    ELSE IF strIncludes(webhookUrl, WEBHOOK) /\ ~strIncludes(webhookUrl, WEBHOOK_TEST)
         THEN strReplace(webhookUrl, WEBHOOK, WEBHOOK_TEST)
         ELSE NoUrl

getN8nCounterpartUrl(webhookUrl) ==
    IF ~isN8nWebhook(webhookUrl) THEN NoUrl
    ELSE IF strIncludes(webhookUrl, WEBHOOK_TEST)
         THEN strReplace(webhookUrl, WEBHOOK_TEST, WEBHOOK)
         ELSE strReplace(webhookUrl, WEBHOOK, WEBHOOK_TEST)

----------------------------------------------------------------------------
\* Hub helper functions

\* md5(webhookUrl), hex, first 16 characters
generateUserKey(webhookUrl) ==
    CASE webhookUrl = UrlHook -> "bd3e42731ab5f9a2"
      [] webhookUrl = UrlTest -> "acf697623a62a145"
      [] webhookUrl = UrlProd -> "0af239215c9f514d"

generateCallbackUrl(userKey) ==
    <<"https://youtube-notifier.vercel.app", "/api", "/websub/", userKey>>

generateTopicUrl(channelId) ==
    <<"https://www.youtube.com/xml/feeds/videos.xml?channel_id=", channelId.id>>

\* The result of one hub POST; ok is the outcome of the HTTP call.
HubResult(ok, channelId, webhookUrl, userKey) ==
    [success |-> ok, channelId |-> channelId,
     callbackUrl |-> generateCallbackUrl(userKey), webhookUrl |-> webhookUrl]

\* One hub call as issued: mode, topic and callback of the form data.
HubCall(mode, channelId, userKey, ok) ==
    [mode |-> mode, topic |-> generateTopicUrl(channelId),
     callback |-> generateCallbackUrl(userKey), ok |-> ok]

\* subscribeToChannels: one call per element, all awaited.  The hub calls of
\* one request are numbered in the order they are issued; fail is the set of
\* the numbers of those whose HTTP request fails, and the calls of this batch
\* are numbered from base + 1.
\* Mutant: the calls are issued one after the other and the batch stops at
\* the first that fails.
subscribeToChannels_StopsAtFailure(channelIds, webhookUrl, userKey, fail, base) ==
    LET failed == {i \in 1..Len(channelIds) : (base + i) \in fail}
        n == IF failed = {} THEN Len(channelIds)
             ELSE CHOOSE i \in failed : \A j \in failed : i <= j
    IN  [i \in 1..n |->
            HubResult((base + i) \notin fail, channelIds[i], webhookUrl, userKey)]

subscribeToChannels(channelIds, webhookUrl, userKey, fail, base) ==
    [i \in 1..Len(channelIds) |->
        HubResult((base + i) \notin fail, channelIds[i], webhookUrl, userKey)]

\* Mutant: no unsubscribe call is made.
unsubscribeFromChannels_None(channelIds, webhookUrl, userKey, fail, base) == <<>>

unsubscribeFromChannels(channelIds, webhookUrl, userKey, fail, base) ==
    [i \in 1..Len(channelIds) |->
        HubResult((base + i) \notin fail, channelIds[i], webhookUrl, userKey)]

CallsOf(mode, results, userKey) ==
    [i \in 1..Len(results) |->
        HubCall(mode, results[i].channelId, userKey, results[i].success)]

----------------------------------------------------------------------------
\* Subscription store: one list under one key.  A read that fails yields the
\* empty list, a write that fails leaves the stored list as it was.  The
\* writing operations return the stored list, their boolean result and the
\* number of writes they attempted.

\* The outcomes of the store operations of one reconciliation: the read of
\* its lookup, then the read and the write of its add, update or removal.
OkIO == [find |-> TRUE, read |-> TRUE, write |-> TRUE]

getSubscriptions(kv, readOk) == IF readOk THEN kv ELSE <<>>

\* Mutant: the error of a failed write is swallowed, the result is true.
saveSubscriptions_IgnoresError(kv, subscriptions, writeOk) ==
    IF writeOk THEN [kv |-> subscriptions, ok |-> TRUE, writes |-> 1]
    ELSE [kv |-> kv, ok |-> TRUE, writes |-> 1]

\* Mutant: the write merges: records stored under other URLs than those of
\* the list are kept.
saveSubscriptions_KeepsOthers(kv, subscriptions, writeOk) ==
    LET listed(r) == \E i \in 1..Len(subscriptions) :
                         subscriptions[i].webhookUrl = r.webhookUrl
        others == SelectSeq(kv, LAMBDA r : ~listed(r))
    IN  IF writeOk THEN [kv |-> subscriptions \o others, ok |-> TRUE, writes |-> 1]
        ELSE [kv |-> kv, ok |-> FALSE, writes |-> 1]

saveSubscriptions(kv, subscriptions, writeOk) ==
    IF writeOk THEN [kv |-> subscriptions, ok |-> TRUE, writes |-> 1]
    ELSE [kv |-> kv, ok |-> FALSE, writes |-> 1]

\* Mutant: a failed read fails the add, nothing is written.
addSubscription_FailsOnFailedRead(kv, subscription, io) ==
    IF io.read THEN saveSubscriptions(kv, Append(kv, subscription), io.write)
    ELSE [kv |-> kv, ok |-> FALSE, writes |-> 0]

addSubscription(kv, subscription, io) ==
    saveSubscriptions(kv, Append(getSubscriptions(kv, io.read), subscription), io.write)

\* Array.prototype.findIndex on userKey: the first match, 0 for -1
findIndexByUserKey(subscriptions, userKey) ==
    LET hits == {i \in 1..Len(subscriptions) : subscriptions[i].userKey = userKey}
    IN  IF hits = {} THEN 0 ELSE CHOOSE i \in hits : \A j \in hits : i <= j

\* Array.prototype.findIndex on webhookUrl
findIndexByWebhook(subscriptions, webhookUrl) ==
    LET hits == {i \in 1..Len(subscriptions) : subscriptions[i].webhookUrl = webhookUrl}
    IN  IF hits = {} THEN 0 ELSE CHOOSE i \in hits : \A j \in hits : i <= j

\* Mutant: a record that is not found counts as updated.
updateSubscription_NotFoundIsOk(kv, userKey, updatedSubscription, io) ==
    LET subscriptions == getSubscriptions(kv, io.read)
        index == findIndexByUserKey(subscriptions, userKey)
    IN  IF index = 0 THEN [kv |-> kv, ok |-> TRUE, writes |-> 0]
        ELSE saveSubscriptions(kv,
                 [subscriptions EXCEPT ![index] = updatedSubscription], io.write)

updateSubscription(kv, userKey, updatedSubscription, io) ==
    LET subscriptions == getSubscriptions(kv, io.read)
        index == findIndexByUserKey(subscriptions, userKey)
    IN  IF index = 0 THEN [kv |-> kv, ok |-> FALSE, writes |-> 0]
        ELSE saveSubscriptions(kv,
                 [subscriptions EXCEPT ![index] = updatedSubscription], io.write)

\* Mutant: the lookup reads a field the records do not have (sub.url) and
\* finds nothing.
findSubscriptionByWebhook_NoMatch(kv, webhookUrl, readOk) == <<>>

\* subscriptions.find(sub => sub.webhookUrl === webhookUrl) || null,
\* as a sequence of length 0 (null) or 1
findSubscriptionByWebhook(kv, webhookUrl, readOk) ==
    LET subscriptions == getSubscriptions(kv, readOk)
        index == findIndexByWebhook(subscriptions, webhookUrl)
    IN  IF index = 0 THEN <<>> ELSE <<subscriptions[index]>>

\* Mutant: the key is not compared, the first record is returned.
findSubscriptionByUserKey_First(kv, userKey, readOk) ==
    LET subscriptions == getSubscriptions(kv, readOk)
    IN  IF subscriptions = <<>> THEN <<>> ELSE <<subscriptions[1]>>

findSubscriptionByUserKey(kv, userKey, readOk) ==
    LET subscriptions == getSubscriptions(kv, readOk)
        index == findIndexByUserKey(subscriptions, userKey)
    IN  IF index = 0 THEN <<>> ELSE <<subscriptions[index]>>

----------------------------------------------------------------------------
\* POST /api/subscribe

Absent == "undefined"

\* Mutant: the length check is dropped, an empty array is accepted.
isNonEmptyArray_NoLengthCheck(channelIds) == channelIds.isArray

\* channelIds && Array.isArray(channelIds) && channelIds.length !== 0
isNonEmptyArray(channelIds) == channelIds.isArray /\ Len(channelIds.items) # 0

\* Mutant: every requested channel is taken for new.
newChannels_All(channelIds, existingChannelIds) == channelIds

\* channelIds.filter(id => !existingSubscription.channelIds.includes(id))
newChannels(channelIds, existingChannelIds) ==
    filter(channelIds, Elems(channelIds) \ Elems(existingChannelIds))

\* channelIds.filter(id => existingSubscription.channelIds.includes(id))
renewedChannels(channelIds, existingChannelIds) ==
    filter(channelIds, Elems(existingChannelIds))

\* Mutant: the new channels are not merged into the record.
mergeChannelIds_KeepOld(existingChannelIds, newlySubscribedChannels) ==
    existingChannelIds

\* [...new Set([...existingSubscription.channelIds, ...newlySubscribedChannels])]
mergeChannelIds(existingChannelIds, newlySubscribedChannels) ==
    SetSpread(existingChannelIds \o newlySubscribedChannels)

\* Mutant: the test for renewed channels is missing from the second branch.
subscribeMessage_NoRenewedTest(exists, newlySubscribedChannels, resubscribedChannels) ==
    IF ~exists THEN "Subscribed successfully"
    ELSE IF newlySubscribedChannels # <<>>
    THEN "Subscription updated with new channels and existing channels resubscribed"
    ELSE "All channels have been resubscribed"

subscribeMessage(exists, newlySubscribedChannels, resubscribedChannels) ==
    IF ~exists THEN "Subscribed successfully"
    ELSE IF newlySubscribedChannels # <<>> /\ resubscribedChannels # <<>>
    THEN "Subscription updated with new channels and existing channels resubscribed"
    ELSE IF newlySubscribedChannels # <<>>
    THEN "Subscription updated successfully"
    ELSE "All channels have been resubscribed"

\* Mutant: the updated record is given another key.
updatedSubscriptionOf_NewKey(existingSubscription, updatedChannelIds) ==
    [existingSubscription EXCEPT
        !.channelIds = updatedChannelIds,
        !.userKey = "0000000000000000"]

\* { ...existingSubscription, channelIds: updatedChannelIds, timestamp }
updatedSubscriptionOf(existingSubscription, updatedChannelIds) ==
    [existingSubscription EXCEPT !.channelIds = updatedChannelIds]

\* The reconciliation of one webhook URL.  Returns the stored list after it,
\* its result object, the hub calls it issued, the numbers of store reads
\* and store writes it made and the result of its add or update.
processSubscription(kv, channelIds, webhookUrl, io, fail, base) ==
    LET found == findSubscriptionByWebhook(kv, webhookUrl, io.find)
        exists == found # <<>>
        existingSubscription == found[1]
        userKey == IF exists THEN existingSubscription.userKey
                   ELSE generateUserKey(webhookUrl)
        newlySubscribedChannels ==
            IF exists THEN newChannels(channelIds, existingSubscription.channelIds)
            ELSE channelIds
        resubscribedChannels ==
            IF exists THEN renewedChannels(channelIds, existingSubscription.channelIds)
            ELSE <<>>
        updatedSubscription ==
            updatedSubscriptionOf(existingSubscription,
                                  mergeChannelIds(existingSubscription.channelIds,
                                                  newlySubscribedChannels))
        subscription ==
            [userKey |-> userKey, channelIds |-> channelIds, webhookUrl |-> webhookUrl]
        saved == IF exists THEN updateSubscription(kv, userKey, updatedSubscription, io)
                 ELSE addSubscription(kv, subscription, io)
        subscriptionResults ==
            subscribeToChannels(newlySubscribedChannels, webhookUrl, userKey, fail, base)
        resubscriptionResults ==
            subscribeToChannels(resubscribedChannels, webhookUrl, userKey, fail,
                                base + Len(newlySubscribedChannels))
        message == subscribeMessage(exists, newlySubscribedChannels, resubscribedChannels)
    IN  IF ~saved.ok
        THEN [kv |-> saved.kv,
              res |-> [success |-> FALSE,
                       userKey |-> Absent,
                       message |-> "Failed to save/update subscription",
                       webhookUrl |-> webhookUrl,
                       newlySubscribedChannels |-> <<>>,
                       resubscribedChannels |-> <<>>,
                       resubscriptionResults |-> <<>>],
              calls |-> <<>>, reads |-> 2, writes |-> saved.writes, saved |-> FALSE]
        ELSE [kv |-> saved.kv,
              res |-> [success |-> TRUE,
                       userKey |-> userKey,
                       message |-> message,
                       webhookUrl |-> webhookUrl,
                       newlySubscribedChannels |-> newlySubscribedChannels,
                       resubscribedChannels |-> resubscribedChannels,
                       resubscriptionResults |-> resubscriptionResults],
              calls |-> CallsOf("subscribe", subscriptionResults, userKey)
                        \o CallsOf("subscribe", resubscriptionResults, userKey),
              reads |-> 2, writes |-> saved.writes, saved |-> TRUE]

\* The body of a response that carries only success: false and a message
ErrorBody(message) ==
    [success |-> FALSE, userKey |-> Absent, message |-> message, webhookUrl |-> NoUrl,
     newlySubscribedChannels |-> <<>>, resubscribedChannels |-> <<>>,
     resubscriptionResults |-> <<>>]

\* The top level of the response to a dual subscribe: the fields of the main
\* result spread, the production result nested under dualSubscription
\* Mutant: the response succeeds only when both reconciliations did.
dualResponseBody_BothMustSucceed(mainSubscriptionResult, productionSubscriptionResult) ==
    [mainSubscriptionResult EXCEPT
        !.success = mainSubscriptionResult.success /\ productionSubscriptionResult.success]

dualResponseBody(mainSubscriptionResult, productionSubscriptionResult) ==
    mainSubscriptionResult

\* The handler of /api/subscribe.  req: method, channelIds (isArray, items),
\* webhookUrl.  io1, io2: the store outcomes of the reconciliation of
\* webhookUrl and of its production counterpart; fail: the failing hub calls.
subscribeHandler(kv, req, io1, io2, fail) ==
    LET channelIds == req.channelIds.items
        webhookUrl == req.webhookUrl
        Reject(status, message) ==
            [kv |-> kv, status |-> status, body |-> ErrorBody(message),
             dual |-> <<>>, calls |-> <<>>, reads |-> 0, writes |-> 0, saved |-> <<>>]
    IN  IF req.method # "POST"
        THEN Reject(405, "Method not allowed. Please use POST.")
        ELSE IF ~isNonEmptyArray(req.channelIds)
        THEN Reject(400, "channelIds must be a non-empty array of YouTube channel IDs")
        ELSE IF \E i \in 1..Len(channelIds) : ~isValidYouTubeChannelId(channelIds[i])
        THEN Reject(400, "One or more channel IDs are not in the correct YouTube format")
        ELSE IF webhookUrl = NoUrl \/ ~isValidUrl(webhookUrl)
        THEN Reject(400, "webhookUrl must be a valid URL")
        ELSE LET isTestUrl == isTestWebhook(webhookUrl)
                 productionWebhookUrl ==
                     IF isTestUrl THEN getProductionWebhookUrl(webhookUrl) ELSE NoUrl
                 main == processSubscription(kv, channelIds, webhookUrl, io1, fail, 0)
                 isDual == isTestUrl /\ productionWebhookUrl # NoUrl
                 prod == processSubscription(main.kv, channelIds, productionWebhookUrl,
                                             io2, fail, Len(main.calls))
             IN  IF isDual
                 THEN [kv |-> prod.kv, status |-> 200,
                       body |-> dualResponseBody(main.res, prod.res),
                       dual |-> <<[productionWebhookUrl |-> productionWebhookUrl,
                                   success |-> prod.res.success,
                                   userKey |-> prod.res.userKey,
                                   message |-> prod.res.message,
                                   newlySubscribedChannels |->
                                       prod.res.newlySubscribedChannels,
                                   resubscribedChannels |-> prod.res.resubscribedChannels,
                                   resubscriptionResults |->
                                       prod.res.resubscriptionResults]>>,
                       calls |-> main.calls \o prod.calls,
                       reads |-> main.reads + prod.reads,
                       writes |-> main.writes + prod.writes,
                       saved |-> <<main.saved, prod.saved>>]
                 ELSE [kv |-> main.kv, status |-> 200, body |-> main.res,
                       dual |-> <<>>, calls |-> main.calls,
                       reads |-> main.reads, writes |-> main.writes,
                       saved |-> <<main.saved>>]

----------------------------------------------------------------------------
\* POST /api/unsubscribe

\* Mutant: the filter keeps the removed channels and drops the others.
remainingAfter_Inverted(channelIds, channelsToUnsubscribe) ==
    filter(channelIds, Elems(channelsToUnsubscribe))

\* subscription.channelIds.filter(id => !channelsToUnsubscribe.includes(id))
remainingAfter(channelIds, channelsToUnsubscribe) ==
    filter(channelIds, Elems(channelIds) \ Elems(channelsToUnsubscribe))

\* Mutant: the list is saved back without removing the record.
removeByUserKey_KeepAll(subscriptions, userKey) == subscriptions

\* Mutant: the filter keeps the record of the key and drops the others.
removeByUserKey_Inverted(subscriptions, userKey) ==
    SelectSeq(subscriptions, LAMBDA sub : sub.userKey = userKey)

\* subscriptions.filter(sub => sub.userKey !== userKey)
removeByUserKey(subscriptions, userKey) ==
    SelectSeq(subscriptions, LAMBDA sub : sub.userKey # userKey)

\* Mutant: an unsubscribe is mirrored from a test URL only, as a subscribe is.
unsubscribeCounterpartUrl_TestOnly(webhookUrl) ==
    IF isTestWebhook(webhookUrl) THEN getProductionWebhookUrl(webhookUrl) ELSE NoUrl

\* The URL an unsubscribe is mirrored to: the production URL of a test URL,
\* the test URL of a production URL, none for any other URL.
unsubscribeCounterpartUrl(webhookUrl) ==
    IF ~isN8nWebhook(webhookUrl) THEN NoUrl
    ELSE IF isTestWebhook(webhookUrl) THEN getProductionWebhookUrl(webhookUrl)
    ELSE IF isProductionWebhook(webhookUrl) THEN getTestWebhookUrl(webhookUrl)
    ELSE NoUrl

\* Mutant: the requested IDs are not filtered against the record.
presentChannels_All(channelIds, subscriptionChannelIds) == channelIds

\* channelIds.filter(id => subscription.channelIds.includes(id))
presentChannels(channelIds, subscriptionChannelIds) ==
    filter(channelIds, Elems(subscriptionChannelIds))

\* Mutant: the stored list is rewritten first and the hub calls are issued
\* only when the write succeeded.
processUnsubscription_WriteFirst(kv, channelsToUnsubscribe, webhookUrl, subscription, io, fail, base) ==
    LET userKey == subscription.userKey
        remainingChannelIds == remainingAfter(subscription.channelIds, channelsToUnsubscribe)
        subscriptions == getSubscriptions(kv, io.read)
        updatedSubscriptions == removeByUserKey(subscriptions, userKey)
        updatedSubscription == [subscription EXCEPT !.channelIds = remainingChannelIds]
        saved == IF remainingChannelIds = <<>>
                 THEN saveSubscriptions(kv, updatedSubscriptions, io.write)
                 ELSE updateSubscription(kv, userKey, updatedSubscription, io)
        unsubscriptionResults ==
            IF saved.ok
            THEN unsubscribeFromChannels(channelsToUnsubscribe, webhookUrl, userKey, fail,
                                         base)
            ELSE <<>>
        message == IF remainingChannelIds = <<>>
                   THEN "Unsubscribed from all channels and removed subscription"
                   ELSE "Unsubscribed from specified channels"
    IN  [kv |-> saved.kv,
         res |-> [success |-> saved.ok,
                  message |-> IF saved.ok THEN message
                              ELSE "Failed to update/remove subscription",
                  webhookUrl |-> webhookUrl,
                  unsubscribedChannels |-> channelsToUnsubscribe,
                  unsubscriptionResults |-> unsubscriptionResults,
                  remainingChannels |-> IF saved.ok THEN remainingChannelIds ELSE <<>>],
         calls |-> CallsOf("unsubscribe", unsubscriptionResults, userKey),
         reads |-> 1, writes |-> saved.writes, saved |-> saved.ok]

\* The removal of channelsToUnsubscribe from one record.  The hub calls are
\* issued first, then the stored list is rewritten.
processUnsubscription(kv, channelsToUnsubscribe, webhookUrl, subscription, io, fail, base) ==
    LET userKey == subscription.userKey
        unsubscriptionResults ==
            unsubscribeFromChannels(channelsToUnsubscribe, webhookUrl, userKey, fail,
                                    base)
        remainingChannelIds == remainingAfter(subscription.channelIds, channelsToUnsubscribe)
        subscriptions == getSubscriptions(kv, io.read)
        updatedSubscriptions == removeByUserKey(subscriptions, userKey)
        updatedSubscription == [subscription EXCEPT !.channelIds = remainingChannelIds]
        saved == IF remainingChannelIds = <<>>
                 THEN saveSubscriptions(kv, updatedSubscriptions, io.write)
                 ELSE updateSubscription(kv, userKey, updatedSubscription, io)
        message == IF remainingChannelIds = <<>>
                   THEN "Unsubscribed from all channels and removed subscription"
                   ELSE "Unsubscribed from specified channels"
    IN  [kv |-> saved.kv,
         res |-> IF ~saved.ok
                 THEN [success |-> FALSE,
                       message |-> "Failed to update/remove subscription",
                       webhookUrl |-> webhookUrl,
                       unsubscribedChannels |-> channelsToUnsubscribe,
                       unsubscriptionResults |-> unsubscriptionResults,
                       remainingChannels |-> <<>>]
                 ELSE [success |-> TRUE,
                       message |-> message,
                       webhookUrl |-> webhookUrl,
                       unsubscribedChannels |-> channelsToUnsubscribe,
                       unsubscriptionResults |-> unsubscriptionResults,
                       remainingChannels |-> remainingChannelIds],
         calls |-> CallsOf("unsubscribe", unsubscriptionResults, userKey),
         reads |-> 1, writes |-> saved.writes, saved |-> saved.ok]

UnsubErrorBody(message, webhookUrl) ==
    [success |-> FALSE, message |-> message, webhookUrl |-> webhookUrl,
     unsubscribedChannels |-> <<>>, unsubscriptionResults |-> <<>>,
     remainingChannels |-> <<>>]

\* The handler of /api/unsubscribe.  req: method, webhookUrl, channelIds
\* (isArray, items), allChannels (TRUE for the value true).  io1, io2: the
\* store outcomes for webhookUrl and for its counterpart; fail: the failing
\* hub calls.
unsubscribeHandler(kv, req, io1, io2, fail) ==
    LET webhookUrl == req.webhookUrl
        channelIds == req.channelIds.items
        Reject(status, message, url, reads) ==
            [kv |-> kv, status |-> status, body |-> UnsubErrorBody(message, url),
             dual |-> <<>>, calls |-> <<>>, reads |-> reads, writes |-> 0,
             saved |-> <<>>]
        found == findSubscriptionByWebhook(kv, webhookUrl, io1.find)
        subscription == found[1]
    IN  IF req.method # "POST"
        THEN Reject(405, "Method not allowed. Please use POST.", NoUrl, 0)
        ELSE IF webhookUrl = NoUrl \/ ~isValidUrl(webhookUrl)
        THEN Reject(400, "webhookUrl must be a valid URL", NoUrl, 0)
        ELSE IF found = <<>>
        THEN Reject(404, "No subscription found for the provided webhook URL", webhookUrl, 1)
        ELSE IF ~req.allChannels /\ ~(req.channelIds.isArray /\ Len(channelIds) > 0)
        THEN Reject(400,
                 "You must specify either channelIds (array) or allChannels (true) to unsubscribe",
                 webhookUrl, 1)
        ELSE IF ~req.allChannels
                /\ \E i \in 1..Len(channelIds) : ~isValidYouTubeChannelId(channelIds[i])
        THEN Reject(400, "One or more channel IDs are not in the correct YouTube format",
                    NoUrl, 1)
        ELSE LET channelsToUnsubscribe ==
                     IF req.allChannels THEN subscription.channelIds
                     ELSE presentChannels(channelIds, subscription.channelIds)
                 isN8n == isN8nWebhook(webhookUrl)
                 counterpartWebhookUrl == unsubscribeCounterpartUrl(webhookUrl)
                 main == processUnsubscription(kv, channelsToUnsubscribe, webhookUrl,
                                               subscription, io1, fail, 0)
                 counterpartFound ==
                     findSubscriptionByWebhook(main.kv, counterpartWebhookUrl, io2.find)
                 counterpartSubscription == counterpartFound[1]
                 counterpart ==
                     processUnsubscription(main.kv,
                         filter(channelsToUnsubscribe,
                                Elems(counterpartSubscription.channelIds)),
                         counterpartWebhookUrl, counterpartSubscription, io2, fail,
                         Len(main.calls))
             IN  IF channelsToUnsubscribe = <<>>
                 THEN Reject(400, "None of the provided channel IDs are in the subscription",
                             webhookUrl, 1)
                 ELSE IF isN8n /\ counterpartWebhookUrl # NoUrl /\ counterpartFound # <<>>
                 THEN [kv |-> counterpart.kv, status |-> 200, body |-> main.res,
                       dual |-> <<[counterpartWebhookUrl |-> counterpartWebhookUrl,
                                   success |-> counterpart.res.success,
                                   message |-> counterpart.res.message,
                                   unsubscribedChannels |->
                                       counterpart.res.unsubscribedChannels,
                                   unsubscriptionResults |->
                                       counterpart.res.unsubscriptionResults,
                                   remainingChannels |->
                                       counterpart.res.remainingChannels]>>,
                       calls |-> main.calls \o counterpart.calls,
                       reads |-> 1 + main.reads + 1 + counterpart.reads,
                       writes |-> main.writes + counterpart.writes,
                       saved |-> <<main.saved, counterpart.saved>>]
                 ELSE [kv |-> main.kv, status |-> 200, body |-> main.res,
                       dual |-> <<>>, calls |-> main.calls,
                       reads |-> 1 + main.reads
                                 + (IF isN8n /\ counterpartWebhookUrl # NoUrl
                                    THEN 1 ELSE 0),
                       writes |-> main.writes, saved |-> <<main.saved>>]

----------------------------------------------------------------------------
\* GET /api/subscription-status

\* Mutant: the status check renews the subscription of each channel.
fetchSubscriptionStatus_Resubscribes(subscription) ==
    [i \in 1..Len(subscription.channelIds) |->
        HubCall("subscribe", subscription.channelIds[i], subscription.userKey, TRUE)]

\* The hub requests of fetchSubscriptionStatus: one GET of the hub's
\* subscription-details page for each channel of the record, with the
\* record's callback and the channel's topic.
fetchSubscriptionStatus(subscription) ==
    [i \in 1..Len(subscription.channelIds) |->
        HubCall("subscription-details", subscription.channelIds[i],
                subscription.userKey, TRUE)]

\* The lookup of the status handler: 404 when the stored list has no record
\* for webhookUrl, else the record and, for an N8N URL, the record of the
\* counterpart URL, each with the hub requests of its status check.
subscriptionStatusHandler(kv, req) ==
    LET webhookUrl == req.webhookUrl
        allSubscriptions == getSubscriptions(kv, TRUE)
        primary == findIndexByWebhook(allSubscriptions, webhookUrl)
        counterpartUrl == getN8nCounterpartUrl(webhookUrl)
        related == IF isN8nWebhook(webhookUrl)
                   THEN findIndexByWebhook(allSubscriptions, counterpartUrl)
                   ELSE 0
        Of(index) == IF index = 0 THEN <<>>
                     ELSE <<[webhookUrl |-> allSubscriptions[index].webhookUrl,
                             userKey |-> allSubscriptions[index].userKey,
                             callbackUrl |->
                                 generateCallbackUrl(allSubscriptions[index].userKey),
                             channels |-> allSubscriptions[index].channelIds]>>
        CallsFor(index) == IF index = 0 THEN <<>>
                           ELSE fetchSubscriptionStatus(allSubscriptions[index])
    IN  IF req.method # "GET"
        THEN [status |-> 405, primary |-> <<>>, related |-> <<>>, calls |-> <<>>]
        ELSE IF webhookUrl = NoUrl
        THEN [status |-> 400, primary |-> <<>>, related |-> <<>>, calls |-> <<>>]
        ELSE IF primary = 0
        THEN [status |-> 404, primary |-> <<>>, related |-> <<>>, calls |-> <<>>]
        ELSE [status |-> 200, primary |-> Of(primary), related |-> Of(related),
              calls |-> CallsFor(primary) \o CallsFor(related)]

----------------------------------------------------------------------------
\* GET and POST /api/websub/[userKey]

\* A query parameter or feed field that is missing
Missing == ""

\* The result of the handler: its response, the number of store reads and the
\* hub calls it made, the POSTs it sent (dispatches) and their URLs (forwards)
WebsubResult(status, body, reads, dispatches) ==
    [status |-> status, body |-> body, reads |-> reads, calls |-> <<>>,
     dispatches |-> dispatches,
     forwards |-> [i \in 1..Len(dispatches) |-> dispatches[i].webhookUrl]]

\* Mutant: the topic is not required.
handleVerification_NoTopicCheck(req) ==
    IF req.mode = Missing \/ req.challenge = Missing
    THEN WebsubResult(400, [success |-> FALSE,
                            message |-> "Missing required verification parameters"],
                      0, <<>>)
    ELSE WebsubResult(200, req.challenge, 0, <<>>)

\* The verification request of the hub: the challenge is echoed when mode,
\* topic and challenge are all present.
handleVerification(req) ==
    IF req.mode = Missing \/ req.topic = Missing \/ req.challenge = Missing
    THEN WebsubResult(400, [success |-> FALSE,
                            message |-> "Missing required verification parameters"],
                      0, <<>>)
    ELSE WebsubResult(200, req.challenge, 0, <<>>)

\* The payload built by one call of forwardToWebhook; timestamp is the time
\* of that call, counted in milliseconds from the first dispatch of the
\* notification.
Payload(videoInfo, timestamp) ==
    [event |-> "youtube.video.published",
     video |-> videoInfo.videoId,
     channel |-> videoInfo.channelId,
     timestamp |-> timestamp]

\* forwardToWebhook: one POST, whose failure is caught and returned.  ok is
\* the outcome of the POST (a 2xx answer within the timeout).
forwardToWebhook(webhookUrl, videoInfo, ok, timestamp) ==
    [webhookUrl |-> webhookUrl, payload |-> Payload(videoInfo, timestamp),
     success |-> ok]

\* What the handler returns of a dispatch
ForwardingResult(dispatch) ==
    [success |-> dispatch.success, webhookUrl |-> dispatch.webhookUrl]

\* Mutant: a notification for a channel the record does not list is dropped.
forwardsChannel_OnlySubscribed(channelId, subscriptionChannelIds) ==
    channelId # Missing /\ \E i \in 1..Len(subscriptionChannelIds) :
                              subscriptionChannelIds[i].id = channelId

\* The channel of the notification is compared with the record's channelIds
\* only to log a warning.
forwardsChannel(channelId, subscriptionChannelIds) == TRUE

\* Mutant: the counterpart is tried only after the primary dispatch succeeded.
forwardsCounterpart_AfterSuccess(primaryWebhookUrl, forwardingResult) ==
    isN8nWebhook(primaryWebhookUrl) /\ forwardingResult.success

\* Mutant: a notification is mirrored from a test URL only, as a subscribe is.
forwardsCounterpart_TestOnly(primaryWebhookUrl, forwardingResult) ==
    isTestWebhook(primaryWebhookUrl)

\* if (isN8nWebhook): the result of the primary dispatch is not looked at
forwardsCounterpart(primaryWebhookUrl, forwardingResult) ==
    isN8nWebhook(primaryWebhookUrl)

\* The notification of a published video.  req.parsed: the body parses to a
\* feed with an entry.  env: the outcomes of the two POSTs and the time that
\* passes between the two calls of forwardToWebhook.
handleNotification(kv, req, env) ==
    LET found == findSubscriptionByUserKey(kv, req.userKey, TRUE)
        subscription == found[1]
        videoInfo == [videoId |-> req.videoId, channelId |-> req.channelId]
        primaryWebhookUrl == subscription.webhookUrl
        forwardingResult == forwardToWebhook(primaryWebhookUrl, videoInfo, env.ok1, 0)
        counterpartWebhookUrl == getN8nCounterpartUrl(primaryWebhookUrl)
        counterpartForwardingResult ==
            forwardToWebhook(counterpartWebhookUrl, videoInfo, env.ok2, env.elapsed)
        Body(counterpart) ==
            [success |-> TRUE,
             message |-> "Notification processed and forwarded",
             userKey |-> req.userKey,
             videoId |-> videoInfo.videoId,
             channelId |-> videoInfo.channelId,
             primaryForwardingResult |-> ForwardingResult(forwardingResult),
             counterpartForwardingResult |->
                 [i \in 1..Len(counterpart) |-> ForwardingResult(counterpart[i])],
             isN8nWebhook |-> isN8nWebhook(primaryWebhookUrl)]
    IN  IF ~req.parsed
        THEN WebsubResult(400, [success |-> FALSE,
                                message |-> "Failed to parse YouTube notification"],
                          0, <<>>)
        ELSE IF found = <<>>
        THEN WebsubResult(404, [success |-> FALSE,
                                message |-> "No subscription found for this userKey"],
                          1, <<>>)
        ELSE IF ~forwardsChannel(req.channelId, subscription.channelIds)
        THEN \* not a branch of the code, which forwards regardless
             WebsubResult(200, [success |-> TRUE, message |-> "Notification ignored"],
                          1, <<>>)
        ELSE IF forwardsCounterpart(primaryWebhookUrl, forwardingResult)
        THEN WebsubResult(200, Body(<<counterpartForwardingResult>>), 1,
                          <<forwardingResult, counterpartForwardingResult>>)
        ELSE WebsubResult(200, Body(<<>>), 1, <<forwardingResult>>)

websubHandler(kv, req, env) ==
    IF req.method = "GET" THEN handleVerification(req)
    ELSE IF req.method = "POST" THEN handleNotification(kv, req, env)
    ELSE WebsubResult(405, [success |-> FALSE,
                            message |-> "Method not allowed. Please use GET or POST."],
                      0, <<>>)

----------------------------------------------------------------------------
\* The state machine: requests handled one at a time, each to completion.

VARIABLES
    store,   \* the list stored under the key youtube_subscriptions
    last,    \* the last request handled, its response and its hub calls
    unsubscribedAll,
             \* history: the URLs whose last successful reconciliation was
             \* an unsubscribe with allChannels = true
    proc,    \* the requests in flight, where requests overlap: for each
             \* invocation its position and its local variables
    hub      \* the subscriptions the hub holds, as pairs of callback and
             \* topic, where the hub is followed (SpecHub)

vars == <<store, last, unsubscribedAll, proc, hub>>

\* The invocations that may run at the same time
Procs == {1, 2}

Idle == [pc |-> "idle"]

RequestUrls == {UrlHook, UrlTest, UrlProd, UrlInvalid, NoUrl}

NotArray == [isArray |-> FALSE, items |-> <<>>]
Array(items) == [isArray |-> TRUE, items |-> items]
InvalidLists == {<<ChanBad>>, <<ChanA, ChanBad>>, <<ChanShort>>, <<ChanNum>>}

\* The channelIds a request may carry: every array of valid IDs up to
\* MaxReqLen (the empty one and those that repeat an ID included), arrays with
\* a malformed ID, and no array at all.
ChannelIdInputs ==
    {NotArray} \cup {Array(s) : s \in SeqsUpTo(ValidChannels, MaxReqLen) \cup InvalidLists}

\* The mirrored pair is subscribed with every channelIds input; the URL that
\* has no counterpart and the unusable URLs with one input of each kind.
SubscribeInputs(webhookUrl) ==
    IF webhookUrl \in {UrlTest, UrlProd} THEN ChannelIdInputs
    ELSE {NotArray, Array(<<ChanA>>), Array(<<ChanBad>>)}

UnsubscribeInputs(webhookUrl) ==
    IF webhookUrl \in {UrlTest, UrlProd} THEN ChannelIdInputs
    ELSE {NotArray, Array(<<ChanA>>), Array(<<ChanB>>), Array(<<ChanBad>>)}

\* A request with another method than POST is answered before its body is read
SubscribeRequests ==
    {[method |-> "POST", webhookUrl |-> uc[1], channelIds |-> uc[2]] :
        uc \in UNION {{<<u, c>> : c \in SubscribeInputs(u)} : u \in RequestUrls}}
    \cup {[method |-> "GET", webhookUrl |-> NoUrl, channelIds |-> NotArray]}

\* allChannels: true is sent without channelIds or with channelIds it overrides
UnsubscribeRequests ==
    {[method |-> "POST", webhookUrl |-> uc[1], channelIds |-> uc[2],
      allChannels |-> FALSE] :
        uc \in UNION {{<<u, c>> : c \in UnsubscribeInputs(u)} : u \in RequestUrls}}
    \cup {[method |-> "POST", webhookUrl |-> u, channelIds |-> c, allChannels |-> TRUE] :
            u \in RequestUrls, c \in {NotArray, Array(<<ChanBad>>)}}
    \cup {[method |-> "GET", webhookUrl |-> NoUrl, channelIds |-> NotArray,
           allChannels |-> FALSE]}

StatusRequests ==
    {[method |-> "GET", webhookUrl |-> u] : u \in RequestUrls}
    \cup {[method |-> "POST", webhookUrl |-> NoUrl]}

\* The outcomes of the n hub calls of one request: the hub answers all of
\* them or none of them
HubFailures(n) == {{}, 1..n}

UnknownKey == "0000000000000000"

\* The userKey of the callback path: the keys of the three URLs and a key
\* that no record has
WebsubKeys == {generateUserKey(u) : u \in {UrlHook, UrlTest, UrlProd}} \cup {UnknownKey}

Topic == "https://www.youtube.com/xml/feeds/videos.xml?channel_id=UC_x5XG1OV2P6uZZ5FSM9Ttw"

Challenge == "14828210609622910347"

\* A notification for each userKey, one whose body does not parse, a
\* verification request with and without its challenge, a request with
\* another method.
WebsubRequests ==
    {[method |-> "POST", userKey |-> k, parsed |-> TRUE,
      videoId |-> "dQw4w9WgXcQ", channelId |-> ChanA.id] : k \in WebsubKeys}
    \cup {[method |-> "POST", userKey |-> UnknownKey, parsed |-> FALSE,
           videoId |-> Missing, channelId |-> Missing]}
    \cup {[method |-> "GET", userKey |-> UnknownKey, mode |-> "subscribe",
           topic |-> Topic, challenge |-> c] : c \in {Missing, Challenge}}
    \cup {[method |-> "PUT", userKey |-> UnknownKey]}

\* Both POSTs of a notification answered with 2xx, at once
NoDispatch == [ok1 |-> TRUE, ok2 |-> TRUE, elapsed |-> 0]

\* The URLs whose subscribe reconciliation succeeded in the response r to req
SubscribedUrls(req, r) ==
    (IF r.status = 200 /\ r.body.success THEN {req.webhookUrl} ELSE {})
    \cup (IF r.dual # <<>> /\ r.dual[1].success
          THEN {r.dual[1].productionWebhookUrl} ELSE {})

\* The URL of an unsubscribe with allChannels = true that succeeded
UnsubscribedAllUrls(req, r) ==
    IF r.status = 200 /\ r.body.success /\ req.allChannels THEN {req.webhookUrl} ELSE {}

Init ==
    /\ store = <<>>
    /\ last = [op |-> "none"]
    /\ unsubscribedAll = {}
    /\ proc = [p \in Procs |-> Idle]
    /\ hub = {}

\* The stored list is read into kv and the result of a handler is bound once,
\* each by \E over a singleton.
Subscribe ==
    \E req \in SubscribeRequests :
      \E kv \in {store} :
      \E r0 \in {subscribeHandler(kv, req, OkIO, OkIO, {})} :
        \E fail \in HubFailures(Len(r0.calls)) :
          \E r \in {IF fail = {} THEN r0
                    ELSE subscribeHandler(kv, req, OkIO, OkIO, fail)} :
            /\ store' = r.kv
            /\ last' = [op |-> "subscribe", req |-> req, status |-> r.status,
                        body |-> r.body, dual |-> r.dual, calls |-> r.calls,
                        reads |-> r.reads, writes |-> r.writes, saved |-> r.saved,
                        io1 |-> OkIO, io2 |-> OkIO, fail |-> fail]
            /\ unsubscribedAll' = unsubscribedAll \ SubscribedUrls(req, r)
            /\ UNCHANGED <<proc, hub>>

Unsubscribe ==
    \E req \in UnsubscribeRequests :
      \E kv \in {store} :
      \E r0 \in {unsubscribeHandler(kv, req, OkIO, OkIO, {})} :
        \E fail \in HubFailures(Len(r0.calls)) :
          \E r \in {IF fail = {} THEN r0
                    ELSE unsubscribeHandler(kv, req, OkIO, OkIO, fail)} :
            /\ store' = r.kv
            /\ last' = [op |-> "unsubscribe", req |-> req, status |-> r.status,
                        body |-> r.body, dual |-> r.dual, calls |-> r.calls,
                        reads |-> r.reads, writes |-> r.writes, saved |-> r.saved,
                        io1 |-> OkIO, io2 |-> OkIO, fail |-> fail]
            /\ unsubscribedAll' = unsubscribedAll \cup UnsubscribedAllUrls(req, r)
            /\ UNCHANGED <<proc, hub>>

SubscriptionStatus ==
    \E req \in StatusRequests :
      \E kv \in {store} :
      \E r \in {subscriptionStatusHandler(kv, req)} :
          /\ store' = store
          /\ last' = [op |-> "status", req |-> req, status |-> r.status,
                      primary |-> r.primary, related |-> r.related,
                      calls |-> r.calls]
          /\ UNCHANGED <<unsubscribedAll, proc, hub>>

Websub ==
    \E req \in WebsubRequests :
      \E kv \in {store} :
        \E r \in {websubHandler(kv, req, NoDispatch)} :
            /\ store' = store
            /\ last' = [op |-> "websub", req |-> req, status |-> r.status,
                        body |-> r.body, forwards |-> r.forwards,
                        dispatches |-> r.dispatches,
                        reads |-> r.reads, calls |-> r.calls]
            /\ UNCHANGED <<unsubscribedAll, proc, hub>>

Next == Subscribe \/ Unsubscribe \/ SubscriptionStatus \/ Websub

Spec == Init /\ [][Next]_vars

----------------------------------------------------------------------------
\* The same handlers with a store that may fail and a hub that may fail any
\* of the calls of a request.

\* The store works; its writes fail; its reads fail (a failed read yields the
\* empty list); the read after the lookup fails.
WriteFails == [find |-> TRUE, read |-> TRUE, write |-> FALSE]
ReadFails == [find |-> FALSE, read |-> FALSE, write |-> TRUE]
LateReadFails == [find |-> TRUE, read |-> FALSE, write |-> TRUE]
FaultyIO == {OkIO, WriteFails, ReadFails, LateReadFails}

\* The requests of the mirrored pair: one channel, and that channel with another
FaultyChannelIds == {Array(<<ChanA>>), Array(<<ChanA, ChanB>>)}

FaultySubscribeRequests ==
    {[method |-> "POST", webhookUrl |-> u, channelIds |-> c] :
        u \in {UrlTest, UrlProd}, c \in FaultyChannelIds}

FaultyUnsubscribeRequests ==
    {[method |-> "POST", webhookUrl |-> u, channelIds |-> Array(<<ChanA>>),
      allChannels |-> FALSE] : u \in {UrlTest, UrlProd}}
    \cup {[method |-> "POST", webhookUrl |-> u, channelIds |-> NotArray,
           allChannels |-> TRUE] : u \in {UrlTest, UrlProd}}

\* The store outcomes of the counterpart's reconciliation; they are drawn
\* only for a request that gets as far as the counterpart
SecondIO == {OkIO, WriteFails, ReadFails}

SubscribeFaulty ==
    \E req \in FaultySubscribeRequests :
      \E io1 \in FaultyIO :
        \E io2 \in SecondIO :
          \E kv \in {store} :
          \E r0 \in {subscribeHandler(kv, req, io1, io2, {})} :
            \E fail \in SUBSET (1..Len(r0.calls)) :
              \E r \in {IF fail = {} THEN r0
                        ELSE subscribeHandler(kv, req, io1, io2, fail)} :
                /\ IF io2 = OkIO THEN TRUE ELSE Len(r0.saved) = 2
                /\ store' = r.kv
                /\ last' = [op |-> "subscribe", req |-> req, status |-> r.status,
                            body |-> r.body, dual |-> r.dual, calls |-> r.calls,
                            reads |-> r.reads, writes |-> r.writes,
                            saved |-> r.saved,
                            io1 |-> io1, io2 |-> io2, fail |-> fail]
                /\ unsubscribedAll' = unsubscribedAll \ SubscribedUrls(req, r)
                /\ UNCHANGED <<proc, hub>>

UnsubscribeFaulty ==
    \E req \in FaultyUnsubscribeRequests :
      \E io1 \in FaultyIO :
        \E io2 \in SecondIO :
          \E kv \in {store} :
          \E r0 \in {unsubscribeHandler(kv, req, io1, io2, {})} :
            \E fail \in SUBSET (1..Len(r0.calls)) :
              \E r \in {IF fail = {} THEN r0
                        ELSE unsubscribeHandler(kv, req, io1, io2, fail)} :
                /\ IF io2 = OkIO THEN TRUE ELSE r0.status = 200
                /\ store' = r.kv
                /\ last' = [op |-> "unsubscribe", req |-> req, status |-> r.status,
                            body |-> r.body, dual |-> r.dual, calls |-> r.calls,
                            reads |-> r.reads, writes |-> r.writes,
                            saved |-> r.saved,
                            io1 |-> io1, io2 |-> io2, fail |-> fail]
                /\ unsubscribedAll' = unsubscribedAll \cup UnsubscribedAllUrls(req, r)
                /\ UNCHANGED <<proc, hub>>

NextFaulty == SubscribeFaulty \/ UnsubscribeFaulty

SpecFaulty == Init /\ [][NextFaulty]_vars

----------------------------------------------------------------------------
\* The hub followed: the store and the hub work, and the hub holds a
\* subscription from the subscribe call for its callback and topic until the
\* unsubscribe call for them.  (The hub's verification request to the
\* callback is answered with the challenge for every topic.)

RECURSIVE hubAfter(_, _)
\* The subscriptions of the hub after the calls, in the order they were issued
hubAfter(h, calls) ==
    IF calls = <<>> THEN h
    ELSE LET c == Head(calls)
             pair == <<c.callback, c.topic>>
         IN  hubAfter(IF ~c.ok THEN h
                      ELSE IF c.mode = "subscribe" THEN h \cup {pair}
                      ELSE h \ {pair},
                      Tail(calls))

SubscribeHub ==
    \E req \in SubscribeRequests :
      \E kv \in {store} :
        \E r \in {subscribeHandler(kv, req, OkIO, OkIO, {})} :
          /\ store' = r.kv
          /\ last' = [op |-> "subscribe", req |-> req, status |-> r.status,
                      body |-> r.body, dual |-> r.dual, calls |-> r.calls,
                      reads |-> r.reads, writes |-> r.writes, saved |-> r.saved,
                      io1 |-> OkIO, io2 |-> OkIO, fail |-> {}]
          /\ unsubscribedAll' = unsubscribedAll \ SubscribedUrls(req, r)
          /\ hub' = hubAfter(hub, r.calls)
          /\ UNCHANGED proc

UnsubscribeHub ==
    \E req \in UnsubscribeRequests :
      \E kv \in {store} :
        \E r \in {unsubscribeHandler(kv, req, OkIO, OkIO, {})} :
          /\ store' = r.kv
          /\ last' = [op |-> "unsubscribe", req |-> req, status |-> r.status,
                      body |-> r.body, dual |-> r.dual, calls |-> r.calls,
                      reads |-> r.reads, writes |-> r.writes, saved |-> r.saved,
                      io1 |-> OkIO, io2 |-> OkIO, fail |-> {}]
          /\ unsubscribedAll' = unsubscribedAll \cup UnsubscribedAllUrls(req, r)
          /\ hub' = hubAfter(hub, r.calls)
          /\ UNCHANGED proc

NextHub == SubscribeHub \/ UnsubscribeHub

SpecHub == Init /\ [][NextHub]_vars

----------------------------------------------------------------------------
\* Overlapping subscribe requests.  Every invocation runs the handler of its
\* own request; each await of processSubscription on the store is a step of
\* its own: the read of findSubscriptionByWebhook, the read of addSubscription
\* or updateSubscription, and its write.  The hub calls and the response are
\* the last step.  The store and the hub work.

\* Longest stored list the overlapping requests are run from
MaxStoreLen == 2

ChanC == [type |-> "string", head |-> "UC", len |-> 24, id |-> "UCBR8-60-B28hp2BmDPdntcQ"]

\* Requests for the URLs that are reconciled alone (no counterpart is
\* subscribed with them): one URL with each of three channels, another
\* with one
ConcurrentRequests ==
    {[method |-> "POST", webhookUrl |-> UrlHook, channelIds |-> Array(<<c>>)] :
        c \in {ChanA, ChanB, ChanC}}
    \cup {[method |-> "POST", webhookUrl |-> UrlProd, channelIds |-> Array(<<ChanA>>)]}

ConcurrentUnsubscribes ==
    {[method |-> "POST", webhookUrl |-> UrlHook, channelIds |-> NotArray,
      allChannels |-> TRUE]}

\* Most requests that one client sends, one after the other
MaxRequests == 2

\* The number of requests that p has sent
Sent(p) == IF proc[p].pc = "idle" THEN 0 ELSE proc[p].n

\* The request is accepted: it passes the validation of the handler.
StartSubscribe(p) ==
    /\ proc[p].pc \in {"idle", "done"}
    /\ Sent(p) < MaxRequests
    /\ Len(store) < MaxStoreLen
    /\ \E req \in ConcurrentRequests :
         proc' = [proc EXCEPT ![p] = [pc |-> "find", n |-> Sent(p) + 1, req |-> req]]
    /\ UNCHANGED <<store, last, unsubscribedAll, hub>>

\* const existingSubscription = await findSubscriptionByWebhook(webhookUrl)
FindExisting(p) ==
    /\ proc[p].pc = "find"
    /\ proc' = [proc EXCEPT ![p] =
                  [pc |-> "read", n |-> proc[p].n, req |-> proc[p].req,
                   found |-> findSubscriptionByWebhook(store, proc[p].req.webhookUrl,
                                                       TRUE)]]
    /\ UNCHANGED <<store, last, unsubscribedAll, hub>>

\* const subscriptions = await getSubscriptions(), in addSubscription or in
\* updateSubscription
ReadSubscriptions(p) ==
    /\ proc[p].pc = "read"
    /\ proc' = [proc EXCEPT ![p] =
                  [pc |-> "write", n |-> proc[p].n, req |-> proc[p].req,
                   found |-> proc[p].found,
                   subscriptions |-> getSubscriptions(store, TRUE)]]
    /\ UNCHANGED <<store, last, unsubscribedAll, hub>>

\* Mutant: an update that finds no record for the userKey appends the
\* updated record.
listToSave_RecreatesMissing(found, subscriptions, channelIds, webhookUrl) ==
    IF found = <<>>
    THEN <<Append(subscriptions,
                  [userKey |-> generateUserKey(webhookUrl), channelIds |-> channelIds,
                   webhookUrl |-> webhookUrl])>>
    ELSE <<Append(SelectSeq(subscriptions,
                            LAMBDA r : r.userKey # found[1].userKey),
                  updatedSubscriptionOf(found[1],
                      mergeChannelIds(found[1].channelIds,
                                      newChannels(channelIds, found[1].channelIds))))>>

\* Mutant: the updated record is built from the record of the list that was
\* read for the write, not from the record that was found before it.
listToSave_MergesIntoRead(found, subscriptions, channelIds, webhookUrl) ==
    IF found = <<>>
    THEN <<Append(subscriptions,
                  [userKey |-> generateUserKey(webhookUrl), channelIds |-> channelIds,
                   webhookUrl |-> webhookUrl])>>
    ELSE LET index == findIndexByUserKey(subscriptions, found[1].userKey)
         IN  IF index = 0 THEN <<>>
             ELSE <<[subscriptions EXCEPT ![index] =
                        updatedSubscriptionOf(
                            subscriptions[index],
                            mergeChannelIds(subscriptions[index].channelIds,
                                            newChannels(channelIds,
                                                        subscriptions[index].channelIds)))]>>

\* The list that addSubscription or updateSubscription saves, computed from
\* the list it read; <<>> stands for the update that finds no record for
\* the userKey and saves nothing.
listToSave(found, subscriptions, channelIds, webhookUrl) ==
    IF found = <<>>
    THEN <<Append(subscriptions,
                  [userKey |-> generateUserKey(webhookUrl), channelIds |-> channelIds,
                   webhookUrl |-> webhookUrl])>>
    ELSE LET existingSubscription == found[1]
             index == findIndexByUserKey(subscriptions, existingSubscription.userKey)
             updatedSubscription ==
                 updatedSubscriptionOf(
                     existingSubscription,
                     mergeChannelIds(existingSubscription.channelIds,
                                     newChannels(channelIds,
                                                 existingSubscription.channelIds)))
         IN  IF index = 0 THEN <<>>
             ELSE <<[subscriptions EXCEPT ![index] = updatedSubscription]>>

\* return await saveSubscriptions(subscriptions)
WriteSubscriptions(p) ==
    /\ proc[p].pc = "write"
    /\ \E toSave \in {listToSave(proc[p].found, proc[p].subscriptions,
                                 proc[p].req.channelIds.items,
                                 proc[p].req.webhookUrl)} :
         \E saved \in {IF toSave = <<>> THEN [kv |-> store, ok |-> FALSE, writes |-> 0]
                       ELSE saveSubscriptions(store, toSave[1], TRUE)} :
           /\ store' = saved.kv
           /\ proc' = [proc EXCEPT ![p] =
                         [pc |-> "hub", n |-> proc[p].n, req |-> proc[p].req,
                          found |-> proc[p].found,
                          subscriptions |-> proc[p].subscriptions,
                          saved |-> saved.ok]]
    /\ UNCHANGED <<last, unsubscribedAll, hub>>

\* The hub calls, if the save succeeded, and the response
Respond(p) ==
    /\ proc[p].pc = "hub"
    /\ LET exists == proc[p].found # <<>>
           channelIds == proc[p].req.channelIds.items
           webhookUrl == proc[p].req.webhookUrl
           userKey == IF exists THEN proc[p].found[1].userKey
                      ELSE generateUserKey(webhookUrl)
           newlySubscribedChannels ==
               IF exists THEN newChannels(channelIds, proc[p].found[1].channelIds)
               ELSE channelIds
           resubscribedChannels ==
               IF exists THEN renewedChannels(channelIds, proc[p].found[1].channelIds)
               ELSE <<>>
       IN  proc' = [proc EXCEPT ![p] =
                      [pc |-> "done", n |-> proc[p].n, req |-> proc[p].req,
                       found |-> proc[p].found,
                       subscriptions |-> proc[p].subscriptions,
                       saved |-> proc[p].saved,
                       status |-> 200,
                       success |-> proc[p].saved,
                       message |-> IF proc[p].saved
                                   THEN subscribeMessage(exists, newlySubscribedChannels,
                                                         resubscribedChannels)
                                   ELSE "Failed to save/update subscription",
                       calls |-> IF proc[p].saved
                                 THEN CallsOf("subscribe",
                                              subscribeToChannels(
                                                  newlySubscribedChannels \o
                                                      resubscribedChannels,
                                                  webhookUrl, userKey, {}, 0),
                                              userKey)
                                 ELSE <<>>]]
    /\ UNCHANGED <<store, last, unsubscribedAll, hub>>

\* An unsubscribe from all channels of a URL, handled from its request to
\* its response between two steps of the subscribe requests
UnsubscribeMeanwhile ==
    \E req \in ConcurrentUnsubscribes :
      \E kv \in {store} :
        \E r \in {unsubscribeHandler(kv, req, OkIO, OkIO, {})} :
          /\ r.status = 200
          /\ r.body.success
          /\ store' = r.kv
          /\ UNCHANGED <<last, unsubscribedAll, proc, hub>>

NextConcurrent ==
    \/ \E p \in Procs :
          \/ StartSubscribe(p)
          \/ FindExisting(p)
          \/ ReadSubscriptions(p)
          \/ WriteSubscriptions(p)
          \/ Respond(p)
    \/ UnsubscribeMeanwhile

SpecConcurrent == Init /\ [][NextConcurrent]_vars

----------------------------------------------------------------------------
\* The callback in detail: every verification request, notifications for
\* every userKey that name a channel or none, and every outcome of the POSTs
\* to the webhooks, over the stores that a subscribe for one channel and an
\* unsubscribe from all channels build; the status query runs among them.

CallbackSubscribes ==
    {[method |-> "POST", webhookUrl |-> u, channelIds |-> Array(<<ChanA>>)] :
        u \in {UrlHook, UrlTest, UrlProd}}

CallbackUnsubscribes ==
    {[method |-> "POST", webhookUrl |-> u, channelIds |-> NotArray,
      allChannels |-> TRUE] : u \in {UrlHook, UrlTest, UrlProd}}

\* Verification requests with each of mode, topic and challenge present or
\* missing; notifications whose feed names a channel or none, one whose body
\* does not parse; a request with another method.
CallbackRequests ==
    {[method |-> "GET", userKey |-> k, mode |-> m, topic |-> t, challenge |-> c] :
        k \in WebsubKeys, m \in {Missing, "subscribe"}, t \in {Missing, Topic},
        c \in {Missing, Challenge}}
    \cup {[method |-> "POST", userKey |-> k, parsed |-> TRUE,
           videoId |-> "dQw4w9WgXcQ", channelId |-> c] :
            k \in WebsubKeys, c \in {ChanA.id, ChanB.id, Missing}}
    \cup {[method |-> "POST", userKey |-> UnknownKey, parsed |-> FALSE,
           videoId |-> Missing, channelId |-> Missing]}
    \cup {[method |-> "PUT", userKey |-> UnknownKey]}

\* Longest time, in milliseconds, between the two calls of forwardToWebhook
\* of one notification: the second is made when the first POST has been
\* answered or has timed out.
MaxElapsed == 1

\* The outcomes of the n POSTs of a notification and, when there are two,
\* the time between them
DispatchOutcomes(n) ==
    {[ok1 |-> a, ok2 |-> b, elapsed |-> d] :
        a \in (IF n > 0 THEN BOOLEAN ELSE {TRUE}),
        b \in (IF n > 1 THEN BOOLEAN ELSE {TRUE}),
        d \in (IF n > 1 THEN 0..MaxElapsed ELSE {0})}

SubscribeOne ==
    \E req \in CallbackSubscribes :
      \E kv \in {store} :
      \E r0 \in {subscribeHandler(kv, req, OkIO, OkIO, {})} :
        \E fail \in HubFailures(Len(r0.calls)) :
          \E r \in {IF fail = {} THEN r0
                    ELSE subscribeHandler(kv, req, OkIO, OkIO, fail)} :
            /\ store' = r.kv
            /\ last' = [op |-> "subscribe", req |-> req, status |-> r.status,
                        body |-> r.body, dual |-> r.dual, calls |-> r.calls,
                        reads |-> r.reads, writes |-> r.writes, saved |-> r.saved,
                        io1 |-> OkIO, io2 |-> OkIO, fail |-> fail]
            /\ unsubscribedAll' = unsubscribedAll \ SubscribedUrls(req, r)
            /\ UNCHANGED <<proc, hub>>

UnsubscribeAll ==
    \E req \in CallbackUnsubscribes :
      \E kv \in {store} :
      \E r0 \in {unsubscribeHandler(kv, req, OkIO, OkIO, {})} :
        \E fail \in HubFailures(Len(r0.calls)) :
          \E r \in {IF fail = {} THEN r0
                    ELSE unsubscribeHandler(kv, req, OkIO, OkIO, fail)} :
            /\ store' = r.kv
            /\ last' = [op |-> "unsubscribe", req |-> req, status |-> r.status,
                        body |-> r.body, dual |-> r.dual, calls |-> r.calls,
                        reads |-> r.reads, writes |-> r.writes, saved |-> r.saved,
                        io1 |-> OkIO, io2 |-> OkIO, fail |-> fail]
            /\ unsubscribedAll' = unsubscribedAll \cup UnsubscribedAllUrls(req, r)
            /\ UNCHANGED <<proc, hub>>

\* History: the notification that was forwarded by the request handled just
\* before, if there was one, with the URLs it was POSTed to.
ForwardedBefore(l) ==
    IF l.op = "websub" /\ l.req.method = "POST" /\ l.status = 200
    THEN <<[userKey |-> l.req.userKey, videoId |-> l.req.videoId,
            channelId |-> l.req.channelId, forwards |-> l.forwards]>>
    ELSE <<>>

Callback ==
    \E req \in CallbackRequests :
      \E kv \in {store} :
        \E r0 \in {websubHandler(kv, req, NoDispatch)} :
          \E env \in DispatchOutcomes(Len(r0.dispatches)) :
            \E r \in {IF env = NoDispatch THEN r0 ELSE websubHandler(kv, req, env)} :
              /\ store' = store
              /\ last' = [op |-> "websub", req |-> req, status |-> r.status,
                          body |-> r.body, forwards |-> r.forwards,
                          dispatches |-> r.dispatches,
                          reads |-> r.reads, calls |-> r.calls,
                          before |-> ForwardedBefore(last)]
              /\ UNCHANGED <<unsubscribedAll, proc, hub>>

NextCallback == SubscribeOne \/ UnsubscribeAll \/ Callback \/ SubscriptionStatus

SpecCallback == Init /\ [][NextCallback]_vars

----------------------------------------------------------------------------
\* The URL conversion as a function of its own: every URL of the n8n origin
\* and up to MaxUrlLen of the tokens below, converted once.

MaxUrlLen == 4

UrlTokens == {"webhook", "-test", "/"}

UrlInputs ==
    {<<"https://your-n8n-instance.com/">> \o t : t \in SeqsUpTo(UrlTokens, MaxUrlLen)}

InitUrl ==
    /\ store = <<>>
    /\ last \in {[op |-> "url", webhookUrl |-> u] : u \in UrlInputs}
    /\ unsubscribedAll = {}
    /\ proc = [p \in Procs |-> Idle]
    /\ hub = {}

ToProduction ==
    /\ last.op = "url"
    /\ \E productionWebhookUrl \in {getProductionWebhookUrl(last.webhookUrl)} :
         last' = [op |-> "production", webhookUrl |-> last.webhookUrl,
                  productionWebhookUrl |-> productionWebhookUrl,
                  isTestUrl |-> isTestWebhook(productionWebhookUrl)]
    /\ UNCHANGED <<store, unsubscribedAll, proc, hub>>

\* The counterpart of a URL and the counterpart of that, as the forwarder
\* (getN8nCounterpartUrl) and as the unsubscribe handler (isTestWebhook ?
\* getProductionWebhookUrl : getTestWebhookUrl) compute them.
ToCounterpart ==
    /\ last.op = "url"
    /\ \E counterpartUrl \in {getN8nCounterpartUrl(last.webhookUrl)} :
         \E mirrorUrl \in {unsubscribeCounterpartUrl(last.webhookUrl)} :
           last' = [op |-> "counterpart", webhookUrl |-> last.webhookUrl,
                    counterpartUrl |-> counterpartUrl,
                    back |-> getN8nCounterpartUrl(counterpartUrl),
                    mirrorUrl |-> mirrorUrl,
                    mirrorBack |-> unsubscribeCounterpartUrl(mirrorUrl)]
    /\ UNCHANGED <<store, unsubscribedAll, proc, hub>>

NextUrl == ToProduction \/ ToCounterpart

SpecUrl == InitUrl /\ [][NextUrl]_vars

----------------------------------------------------------------------------
\* The outbound calls of a request and the return of the request.  A request
\* makes up to MaxCalls calls: the hub calls of a subscribe, an unsubscribe
\* or a status query are all issued at once and awaited together, the
\* webhook POSTs of a notification are made one after the other.  The remote
\* side answers a call or never does.

MaxCalls == 2

OutboundOps == {"subscribe", "unsubscribe", "status", "notification"}

CallKind(op) == IF op = "notification" THEN "webhook" ELSE "hub"

\* The timeout option of the axios call, in milliseconds; 0, the default of
\* axios, is no timeout.
TimeoutMs(kind) == IF kind = "webhook" THEN 10000 ELSE 0

Pending(p) == {c \in 1..proc[p].n : proc[p].results[c] = "pending"}

\* The calls that have been issued and not answered
Outstanding(p) ==
    IF proc[p].pc # "waiting" \/ Pending(p) = {} THEN {}
    ELSE IF CallKind(proc[p].op) = "hub" THEN Pending(p)
    ELSE {CHOOSE c \in Pending(p) : \A d \in Pending(p) : c <= d}

StartRequest(p) ==
    /\ proc[p].pc \in {"idle", "done"}
    /\ \E op \in OutboundOps :
         \E n \in 1..MaxCalls :
           proc' = [proc EXCEPT ![p] =
                      [pc |-> "waiting", op |-> op, n |-> n,
                       results |-> [c \in 1..n |-> "pending"]]]
    /\ UNCHANGED <<store, last, unsubscribedAll, hub>>

\* The remote side answers call c: with a 2xx status, or with an error
\* status or a transport error, which the caller catches.
Answer(p, c) ==
    /\ c \in Outstanding(p)
    /\ \E r \in {"ok", "failed"} :
         proc' = [proc EXCEPT ![p].results[c] = r]
    /\ UNCHANGED <<store, last, unsubscribedAll, hub>>

\* The timeout of call c expires: axios rejects, the caller catches.
TimeoutCall(p, c) ==
    /\ c \in Outstanding(p)
    /\ TimeoutMs(CallKind(proc[p].op)) > 0
    /\ proc' = [proc EXCEPT ![p].results[c] = "timeout"]
    /\ UNCHANGED <<store, last, unsubscribedAll, hub>>

\* All calls are settled: the handler sends its response.
Return(p) ==
    /\ proc[p].pc = "waiting"
    /\ Pending(p) = {}
    /\ proc' = [proc EXCEPT ![p].pc = "done"]
    /\ UNCHANGED <<store, last, unsubscribedAll, hub>>

NextOutbound ==
    \E p \in Procs :
        \/ StartRequest(p)
        \/ \E c \in 1..MaxCalls : Answer(p, c)
        \/ \E c \in 1..MaxCalls : TimeoutCall(p, c)
        \/ Return(p)

\* The handler runs on when its awaits settle and a timer that was set
\* fires; nothing makes the remote side answer.
FairOutbound ==
    \A p \in Procs :
        /\ WF_vars(Return(p))
        /\ \A c \in 1..MaxCalls : WF_vars(TimeoutCall(p, c))

SpecOutbound == Init /\ [][NextOutbound]_vars /\ FairOutbound

----------------------------------------------------------------------------
\* Properties.  In an action property the unprimed store is the stored list
\* before the request that last' describes, the primed store the list after.

\* The record stored for webhookUrl, as a sequence of length 0 or 1
RecordOf(kv, webhookUrl) == findSubscriptionByWebhook(kv, webhookUrl, TRUE)
HasRecord(kv, webhookUrl) == RecordOf(kv, webhookUrl) # <<>>
ChannelsOf(kv, webhookUrl) ==
    IF HasRecord(kv, webhookUrl) THEN Elems(RecordOf(kv, webhookUrl)[1].channelIds) ELSE {}
RecordsFor(kv, webhookUrl) == {i \in 1..Len(kv) : kv[i].webhookUrl = webhookUrl}

\* l describes a subscribe / an unsubscribe that was accepted and whose
\* reconciliation of the request's own URL succeeded
Subscribed(l) == l.op = "subscribe" /\ l.status = 200 /\ l.body.success
Unsubscribed(l) == l.op = "unsubscribe" /\ l.status = 200 /\ l.body.success

\* req is a POST with a non-empty array of well-formed channel IDs
HasValidChannelIds(req) ==
    /\ req.method = "POST"
    /\ req.channelIds.isArray
    /\ req.channelIds.items # <<>>
    /\ \A i \in 1..Len(req.channelIds.items) :
           isValidYouTubeChannelId(req.channelIds.items[i])

\* C1: with requests handled one at a time and a store that works, the
\* stored list never holds two records with the same webhookUrl (a subscribe
\* for a URL that has a record updates it and appends nothing).
C1_OneRecordPerWebhookUrl ==
    \A i, j \in 1..Len(store) :
        store[i].webhookUrl = store[j].webhookUrl => i = j

\* A subscribe for a URL that already had a record has been handled and the
\* list holds one record for that URL.
C1_Witness ==
    /\ Subscribed(last)
    /\ last.body.message = "All channels have been resubscribed"
    /\ Cardinality(RecordsFor(store, last.req.webhookUrl)) = 1
    /\ Len(store) > 1

\* C2: every stored record has a non-empty channelIds (an unsubscribe that
\* removes the last channel of a record deletes the record).
C2_ChannelIdsNeverEmpty ==
    \A i \in 1..Len(store) : store[i].channelIds # <<>>

\* An unsubscribe by explicit IDs has removed the last channel of a record,
\* and the record is gone while another record remains.
C2_Witness ==
    /\ Unsubscribed(last)
    /\ ~last.req.allChannels
    /\ last.body.unsubscribedChannels # <<>>
    /\ last.body.remainingChannels = <<>>
    /\ ~HasRecord(store, last.req.webhookUrl)
    /\ Len(store) > 0

\* C3: no stored record lists a channel ID twice, also when a request
\* repeats an ID in its channelIds.
C3_NoDuplicateChannelIds ==
    \A r \in 1..Len(store) :
        \A i, j \in 1..Len(store[r].channelIds) :
            store[r].channelIds[i] = store[r].channelIds[j] => i = j

\* C4: a subscribe that repeats the request of the successful subscribe
\* handled just before it classifies every requested channel as renewed and
\* none as new, returns the same userKey, and leaves the record of the URL
\* with the channelIds it had after the first call.
C4_SubscribeIdempotent ==
    [][(/\ Subscribed(last)
        /\ last'.op = "subscribe"
        /\ last'.req = last.req)
       => LET u == last.req.webhookUrl
              before == RecordOf(store, u)[1]
              after == RecordOf(store', u)[1]
          IN  /\ Subscribed(last')
              /\ last'.body.newlySubscribedChannels = <<>>
              /\ last'.body.resubscribedChannels = last.req.channelIds.items
              /\ last'.body.message = "All channels have been resubscribed"
              /\ last'.body.userKey = last.body.userKey
              /\ HasRecord(store, u) /\ HasRecord(store', u)
              /\ after.userKey = before.userKey
              /\ after.channelIds = before.channelIds
              /\ Len(store') = Len(store)]_vars

\* A two-channel subscribe for a test URL has found both channels in the
\* record of the test URL and in the record of the production URL, as the
\* repetition of a dual subscribe does.
C4_Witness ==
    /\ Subscribed(last)
    /\ Len(last.req.channelIds.items) = 2
    /\ last.body.resubscribedChannels = last.req.channelIds.items
    /\ last.body.newlySubscribedChannels = <<>>
    /\ last.dual # <<>>
    /\ last.dual[1].message = "All channels have been resubscribed"

\* C5: after a successful unsubscribe with allChannels = true for URL u the
\* list holds no record for u: the lookup by webhook finds nothing and the
\* status query for u answers 404.
C5_DeletionLaw ==
    (Unsubscribed(last) /\ last.req.allChannels)
    => /\ RecordsFor(store, last.req.webhookUrl) = {}
       /\ findSubscriptionByWebhook(store, last.req.webhookUrl, TRUE) = <<>>
       /\ subscriptionStatusHandler(store,
              [method |-> "GET", webhookUrl |-> last.req.webhookUrl]).status = 404

\* An allChannels unsubscribe has removed a record of two channels, and the
\* list still holds another record.
C5_Witness ==
    /\ Unsubscribed(last)
    /\ last.req.allChannels
    /\ Len(last.body.unsubscribedChannels) = 2
    /\ Len(store) > 0

\* C6: an unsubscribe of a strict non-empty subset S of the channels of a
\* record leaves a record for the same URL with the same userKey whose
\* channelIds is the previous channelIds without the channels of S, in the
\* previous order, and is not empty.
C6_PartialUnsubscribeLaw ==
    [][(/\ last'.op = "unsubscribe"
        /\ HasValidChannelIds(last'.req)
        /\ ~last'.req.allChannels
        /\ Elems(last'.req.channelIds.items) \subseteq ChannelsOf(store, last'.req.webhookUrl)
        /\ Elems(last'.req.channelIds.items) # ChannelsOf(store, last'.req.webhookUrl))
       => LET u == last'.req.webhookUrl
              S == Elems(last'.req.channelIds.items)
              before == RecordOf(store, u)[1]
              after == RecordOf(store', u)[1]
          IN  /\ Unsubscribed(last')
              /\ HasRecord(store', u)
              /\ after.userKey = before.userKey
              /\ after.webhookUrl = u
              /\ after.channelIds = filter(before.channelIds, Elems(before.channelIds) \ S)
              /\ Elems(after.channelIds) = Elems(before.channelIds) \ S
              /\ after.channelIds # <<>>
              /\ last'.body.remainingChannels = after.channelIds]_vars

\* A partial unsubscribe has been handled: one channel removed, one left.
C6_Witness ==
    /\ Unsubscribed(last)
    /\ ~last.req.allChannels
    /\ Len(last.body.unsubscribedChannels) = 1
    /\ Len(last.body.remainingChannels) = 1
    /\ HasRecord(store, last.req.webhookUrl)
    /\ RecordOf(store, last.req.webhookUrl)[1].channelIds = last.body.remainingChannels

\* C7: after a successful subscribe(channelIds, url), whatever the list held
\* before, the record found by url lists every requested channel ID.
C7_SubscribeRoundTrip ==
    Subscribed(last)
    => /\ HasRecord(store, last.req.webhookUrl)
       /\ Elems(last.req.channelIds.items) \subseteq ChannelsOf(store, last.req.webhookUrl)
       /\ RecordOf(store, last.body.webhookUrl)[1].userKey = last.body.userKey

\* A subscribe has added a channel to a record that held another one: the
\* record lists more channels than were requested.
C7_Witness ==
    /\ Subscribed(last)
    /\ last.body.message = "Subscription updated successfully"
    /\ Elems(last.req.channelIds.items) # ChannelsOf(store, last.req.webhookUrl)
    /\ Elems(last.req.channelIds.items) \subseteq ChannelsOf(store, last.req.webhookUrl)

\* The decision table of the subscribe message
TableMessage(existing, anyNew, anyRenewed) ==
    CASE ~existing -> "Subscribed successfully"
      [] existing /\ anyNew /\ anyRenewed ->
            "Subscription updated with new channels and existing channels resubscribed"
      [] existing /\ anyNew /\ ~anyRenewed -> "Subscription updated successfully"
      [] existing /\ ~anyNew /\ anyRenewed -> "All channels have been resubscribed"

\* C8: the message of a successful subscribe is the one the decision table
\* gives for (record existed, some requested channel absent from it, some
\* requested channel present in it), and newlySubscribedChannels and
\* resubscribedChannels are the requested channels absent from and present
\* in the record as it was before the call, in request order.
C8_SubscribeMessageTable ==
    [][Subscribed(last')
       => LET u == last'.req.webhookUrl
              requested == last'.req.channelIds.items
              existing == HasRecord(store, u)
              had == ChannelsOf(store, u)
              absent == SelectSeq(requested, LAMBDA c : c \notin had)
              present == SelectSeq(requested, LAMBDA c : c \in had)
          IN  /\ last'.body.newlySubscribedChannels = absent
              /\ last'.body.resubscribedChannels = present
              /\ last'.body.message =
                     TableMessage(existing, absent # <<>>, present # <<>>)]_vars

\* A subscribe with one new and one renewed channel has been handled.
C8_Witness ==
    /\ Subscribed(last)
    /\ last.body.message =
           "Subscription updated with new channels and existing channels resubscribed"
    /\ Len(last.body.newlySubscribedChannels) = 1
    /\ Len(last.body.resubscribedChannels) = 1

\* C9: a subscribe for a test URL T, when the list holds no record for T nor
\* for its production counterpart P, creates one record for T and one for P
\* with different userKeys and the requested channelIds, and returns P's own
\* result (success, P's userKey, "Subscribed successfully") as the nested
\* dual result.
C9_DualSubscribeCreatesBoth ==
    [][(/\ last'.op = "subscribe"
        /\ HasValidChannelIds(last'.req)
        /\ isValidUrl(last'.req.webhookUrl)
        /\ strIncludes(last'.req.webhookUrl, WEBHOOK_TEST)
        /\ ~HasRecord(store, last'.req.webhookUrl)
        /\ ~HasRecord(store, strReplace(last'.req.webhookUrl, WEBHOOK_TEST, WEBHOOK)))
       => LET T == last'.req.webhookUrl
              P == strReplace(T, WEBHOOK_TEST, WEBHOOK)
              requested == last'.req.channelIds.items
              recT == RecordOf(store', T)[1]
              recP == RecordOf(store', P)[1]
          IN  /\ P # T /\ P # NoUrl
              /\ Cardinality(RecordsFor(store', T)) = 1
              /\ Cardinality(RecordsFor(store', P)) = 1
              /\ Len(store') = Len(store) + 2
              /\ recT.userKey # recP.userKey
              /\ recT.channelIds = requested
              /\ recP.channelIds = requested
              /\ Subscribed(last')
              /\ last'.body.userKey = recT.userKey
              /\ last'.body.message = "Subscribed successfully"
              /\ Len(last'.dual) = 1
              /\ last'.dual[1].productionWebhookUrl = P
              /\ last'.dual[1].success
              /\ last'.dual[1].userKey = recP.userKey
              /\ last'.dual[1].message = "Subscribed successfully"
              /\ last'.dual[1].newlySubscribedChannels = requested]_vars

\* A dual subscribe has created both records next to a third one.
C9_Witness ==
    /\ Subscribed(last)
    /\ last.req.webhookUrl = UrlTest
    /\ last.body.message = "Subscribed successfully"
    /\ Len(last.dual) = 1
    /\ last.dual[1].message = "Subscribed successfully"
    /\ HasRecord(store, UrlTest) /\ HasRecord(store, UrlProd)
    /\ Len(store) = 3

\* C10: an unsubscribe for a test or production URL u whose counterpart has
\* a record removes from the counterpart's record every channel it removed
\* from u's record that the counterpart's record lists, and nothing else;
\* the counterpart's record is deleted exactly when none of its channels
\* remain.  A subscribe for a URL that is not a test URL changes no record
\* but that URL's, so it is never mirrored from a production URL to its
\* test URL.
C10_UnsubscribeMirrorsBothWays ==
    [][/\ (/\ Unsubscribed(last')
           /\ (isTestWebhook(last'.req.webhookUrl)
                 \/ isProductionWebhook(last'.req.webhookUrl))
           /\ HasRecord(store, getN8nCounterpartUrl(last'.req.webhookUrl)))
          => LET c == getN8nCounterpartUrl(last'.req.webhookUrl)
                 removed == Elems(last'.body.unsubscribedChannels)
                 before == RecordOf(store, c)[1]
                 left == filter(before.channelIds, Elems(before.channelIds) \ removed)
             IN  /\ ChannelsOf(store', c) = ChannelsOf(store, c) \ removed
                 /\ HasRecord(store', c) <=> (left # <<>>)
                 /\ HasRecord(store', c) => RecordOf(store', c)[1].channelIds = left
                 /\ Len(last'.dual) = 1
                 /\ last'.dual[1].counterpartWebhookUrl = c
       /\ (/\ last'.op = "subscribe"
           /\ ~isTestWebhook(last'.req.webhookUrl))
          => /\ last'.dual = <<>>
             /\ \A i \in 1..Len(store) :
                    store[i].webhookUrl # last'.req.webhookUrl
                    => i <= Len(store') /\ store'[i] = store[i]
             /\ \A i \in 1..Len(store') :
                    store'[i].webhookUrl # last'.req.webhookUrl
                    => i <= Len(store) /\ store[i] = store'[i]]_vars

\* An unsubscribe for the production URL has removed a channel from the test
\* URL's record as well, which keeps another channel.
C10_Witness ==
    /\ Unsubscribed(last)
    /\ last.req.webhookUrl = UrlProd
    /\ Len(last.dual) = 1
    /\ last.dual[1].counterpartWebhookUrl = UrlTest
    /\ Len(last.dual[1].unsubscribedChannels) = 1
    /\ Len(last.dual[1].remainingChannels) = 1
    /\ HasRecord(store, UrlTest)

\* C11: an unsubscribe with allChannels = true for a test URL whose
\* production counterpart has a record removes the production record too,
\* whatever channels that record holds, and reports all of them unsubscribed.
C11_AllChannelsRemovesCounterpart ==
    [][(/\ Unsubscribed(last')
        /\ last'.req.allChannels
        /\ isTestWebhook(last'.req.webhookUrl)
        /\ HasRecord(store, getProductionWebhookUrl(last'.req.webhookUrl)))
       => LET P == getProductionWebhookUrl(last'.req.webhookUrl)
          IN  /\ ~HasRecord(store', P)
              /\ Len(last'.dual) = 1
              /\ Elems(last'.dual[1].unsubscribedChannels) = ChannelsOf(store, P)]_vars

\* C12: a notification handled while URL u is in unsubscribedAll (u was
\* unsubscribed with allChannels = true and not subscribed since) POSTs no
\* payload to u, whatever userKey the notification is for.
C12_NoForwardAfterUnsubscribeAll ==
    [][last'.op = "websub"
       => \A i \in 1..Len(last'.forwards) : last'.forwards[i] \notin unsubscribedAll]_vars

\* A channel ID that is not a 24-character string starting with "UC"
Malformed(c) == c.type # "string" \/ c.head # "UC" \/ c.len # 24

\* The text of a URL that new URL() rejects, or no URL at all
BadUrl(u) == u = NoUrl \/ u[1] \notin Origins

\* C13: a POST to subscribe whose channelIds is missing or empty, or holds a
\* malformed ID, or whose webhookUrl is missing or invalid, is answered 400
\* with a validation message without any store read, store write or hub
\* call, and the stored list is left as it was.
C13_SubscribeValidatesFirst ==
    [][(/\ last'.op = "subscribe"
        /\ last'.req.method = "POST"
        /\ \/ ~last'.req.channelIds.isArray
           \/ last'.req.channelIds.items = <<>>
           \/ \E i \in 1..Len(last'.req.channelIds.items) :
                  Malformed(last'.req.channelIds.items[i])
           \/ BadUrl(last'.req.webhookUrl))
       => /\ last'.status = 400
          /\ ~last'.body.success
          /\ last'.body.message \in
                {"channelIds must be a non-empty array of YouTube channel IDs",
                 "One or more channel IDs are not in the correct YouTube format",
                 "webhookUrl must be a valid URL"}
          /\ last'.reads = 0
          /\ last'.writes = 0
          /\ last'.calls = <<>>
          /\ store' = store]_vars

\* A subscribe with a 23-character ID has been rejected while the list holds
\* a record for the URL of the request.
C13_Witness ==
    /\ last.op = "subscribe"
    /\ last.status = 400
    /\ last.req.channelIds.items = <<ChanShort>>
    /\ last.body.message = "One or more channel IDs are not in the correct YouTube format"
    /\ HasRecord(store, last.req.webhookUrl)

\* C14: a POST to unsubscribe with a valid webhookUrl, without allChannels,
\* whose channelIds array holds a malformed ID is answered 400 with the
\* invalid-channel-ID message without any store read, store write or hub
\* call, whether or not the list holds a record for the URL.
C14_UnsubscribeValidatesFirst ==
    [][(/\ last'.op = "unsubscribe"
        /\ last'.req.method = "POST"
        /\ ~BadUrl(last'.req.webhookUrl)
        /\ ~last'.req.allChannels
        /\ last'.req.channelIds.isArray
        /\ \E i \in 1..Len(last'.req.channelIds.items) :
               Malformed(last'.req.channelIds.items[i]))
       => /\ last'.status = 400
          /\ last'.body.message =
                 "One or more channel IDs are not in the correct YouTube format"
          /\ last'.reads = 0
          /\ last'.writes = 0
          /\ last'.calls = <<>>]_vars

\* C15: an unsubscribe that is rejected leaves the stored list as it was and
\* issues no hub call, for the URL or for its counterpart.  A POST for a URL
\* without a record is answered 404; for a URL with a record, one without
\* channel IDs and without allChannels = true is answered 400.  With
\* well-formed IDs, the request is answered 400 when none of them is in the
\* record; when one is, it succeeds and removes exactly the requested IDs
\* that are in the record.
C15_UnsubscribeRejections ==
    [][last'.op = "unsubscribe"
       => LET req == last'.req
              u == req.webhookUrl
              present == SelectSeq(req.channelIds.items,
                                   LAMBDA c : c \in ChannelsOf(store, u))
          IN  /\ last'.status # 200
                 => /\ store' = store
                    /\ last'.calls = <<>>
                    /\ last'.writes = 0
                    /\ last'.dual = <<>>
                    /\ ~last'.body.success
              /\ (req.method = "POST" /\ ~BadUrl(u) /\ ~HasRecord(store, u))
                 => last'.status = 404
              /\ (/\ req.method = "POST" /\ ~BadUrl(u) /\ HasRecord(store, u)
                  /\ ~req.allChannels
                  /\ (~req.channelIds.isArray \/ req.channelIds.items = <<>>))
                 => last'.status = 400
              /\ (HasValidChannelIds(req) /\ ~BadUrl(u) /\ HasRecord(store, u)
                  /\ ~req.allChannels)
                 => IF present = <<>>
                    THEN /\ last'.status = 400
                         /\ last'.body.message =
                                "None of the provided channel IDs are in the subscription"
                    ELSE /\ last'.status = 200
                         /\ last'.body.success
                         /\ last'.body.unsubscribedChannels = present
                         /\ ChannelsOf(store', u) = ChannelsOf(store, u) \ Elems(present)
                         /\ \A i \in 1..Len(last'.calls) :
                                \E j \in 1..Len(present) :
                                    last'.calls[i].topic = generateTopicUrl(present[j])]_vars

\* An unsubscribe of two channels has removed the one that was in the record
\* and dropped the other.
C15_Witness ==
    /\ Unsubscribed(last)
    /\ ~last.req.allChannels
    /\ Len(last.req.channelIds.items) = 2
    /\ Len(last.body.unsubscribedChannels) = 1
    /\ Elems(last.req.channelIds.items) # Elems(last.body.unsubscribedChannels)

\* The add or update of the reconciliation of webhookUrl succeeds: the write
\* succeeds and, when the lookup found a record, the read of the update
\* returns the list.
WriteSucceeds(kv, webhookUrl, io) ==
    io.write /\ ((io.find /\ HasRecord(kv, webhookUrl)) => io.read)

\* The hub calls of calls made with the callback URL of userKey
CallsFor(calls, userKey) ==
    SelectSeq(calls, LAMBDA c : c.callback = generateCallbackUrl(userKey))

\* The stored list between the two reconciliations of a dual subscribe
AfterMain(kv, req, io1) ==
    processSubscription(kv, req.channelIds.items, req.webhookUrl, io1, {}, 0).kv

\* C16: the success flag of each reconciliation of an accepted subscribe is
\* true exactly when its add or update succeeded, and the hub calls that
\* fail change neither the flags, the messages nor the stored list: they are
\* what they are when every hub call succeeds.
C16_SuccessIffStoreWrite ==
    [][(last'.op = "subscribe" /\ last'.status = 200)
       => LET req == last'.req
          IN  /\ last'.body.success = WriteSucceeds(store, req.webhookUrl, last'.io1)
              /\ last'.dual # <<>>
                 => last'.dual[1].success =
                        WriteSucceeds(AfterMain(store, req, last'.io1),
                                      last'.dual[1].productionWebhookUrl, last'.io2)
              /\ last'.fail # {}
                 => \E allOk \in {subscribeHandler(store, req, last'.io1, last'.io2, {})} :
                        /\ store' = allOk.kv
                        /\ last'.body.success = allOk.body.success
                        /\ last'.body.message = allOk.body.message
                        /\ last'.dual # <<>>
                           => /\ last'.dual[1].success = allOk.dual[1].success
                              /\ last'.dual[1].message = allOk.dual[1].message]_vars

\* A subscribe of two channels has succeeded and stored its record although
\* the hub call of one of the channels failed.
C16_Witness ==
    /\ Subscribed(last)
    /\ Len(last.req.channelIds.items) = 2
    /\ \E i, j \in 1..Len(CallsFor(last.calls, last.body.userKey)) :
           /\ ~CallsFor(last.calls, last.body.userKey)[i].ok
           /\ CallsFor(last.calls, last.body.userKey)[j].ok
    /\ Elems(last.req.channelIds.items) \subseteq ChannelsOf(store, last.req.webhookUrl)

\* C17: the response to a successful subscribe reports, for every hub call
\* made for the URL of the request, the outcome of that call under its
\* channel ID.
C17_EveryHubOutcomeReported ==
    [][Subscribed(last')
       => \A i \in 1..Len(CallsFor(last'.calls, last'.body.userKey)) :
              LET call == CallsFor(last'.calls, last'.body.userKey)[i]
              IN  \E j \in 1..Len(last'.body.resubscriptionResults) :
                      /\ generateTopicUrl(last'.body.resubscriptionResults[j].channelId)
                            = call.topic
                      /\ last'.body.resubscriptionResults[j].success = call.ok]_vars

\* C18: when the add or update of a reconciliation of an accepted subscribe
\* fails, the reconciliation reports failure with the save/update message
\* and no hub call is made with the callback URL of its webhook URL.
C18_NoHubCallAfterFailedWrite ==
    [][(last'.op = "subscribe" /\ last'.status = 200)
       => LET req == last'.req
              u == req.webhookUrl
          IN  /\ ~WriteSucceeds(store, u, last'.io1)
                 => /\ ~last'.body.success
                    /\ last'.body.message = "Failed to save/update subscription"
                    /\ CallsFor(last'.calls, generateUserKey(u)) = <<>>
                    /\ ~last'.saved[1]
              /\ (/\ last'.dual # <<>>
                  /\ ~WriteSucceeds(AfterMain(store, req, last'.io1),
                                    last'.dual[1].productionWebhookUrl, last'.io2))
                 => /\ ~last'.dual[1].success
                    /\ last'.dual[1].message = "Failed to save/update subscription"
                    /\ CallsFor(last'.calls,
                           generateUserKey(last'.dual[1].productionWebhookUrl)) = <<>>]_vars

\* The update of the record of a test URL has failed and no hub call was
\* made for it, while the reconciliation of the production URL made its own.
C18_Witness ==
    /\ last.op = "subscribe"
    /\ last.status = 200
    /\ ~last.body.success
    /\ last.saved = <<FALSE, TRUE>>
    /\ last.calls # <<>>
    /\ CallsFor(last.calls, generateUserKey(last.req.webhookUrl)) = <<>>

\* C19: the success flag and the message an accepted subscribe or
\* unsubscribe for a test or production URL reports for that URL are those
\* of the reconciliation of that URL taken alone on the stored list, whatever
\* the reconciliation of the counterpart does (succeeds, fails, finds no
\* record) and whether or not there is one.
C19_PrimaryIndependentOfCounterpart ==
    [][(/\ last'.op \in {"subscribe", "unsubscribe"}
        /\ last'.status = 200
        /\ isN8nWebhook(last'.req.webhookUrl))
       => LET req == last'.req
              u == req.webhookUrl
              sub == findSubscriptionByWebhook(store, u, last'.io1.find)[1]
              chans == IF req.allChannels THEN sub.channelIds
                       ELSE SelectSeq(req.channelIds.items,
                                      LAMBDA c : includes(sub.channelIds, c))
          IN  \E own \in {IF last'.op = "subscribe"
                          THEN processSubscription(store, req.channelIds.items, u,
                                                   last'.io1, last'.fail, 0).res
                          ELSE processUnsubscription(store, chans, u, sub, last'.io1,
                                                     last'.fail, 0).res} :
                  /\ last'.body.success = own.success
                  /\ last'.body.message = own.message]_vars

\* A dual subscribe has reported success for the test URL while the
\* reconciliation of the production URL failed.
C19_Witness ==
    /\ Subscribed(last)
    /\ last.body.message = "Subscribed successfully"
    /\ Len(last.dual) = 1
    /\ ~last.dual[1].success
    /\ last.dual[1].message = "Failed to save/update subscription"

\* The calls of cs are one hub subscribe call for each channel of requested,
\* each with the callback URL <base>/websub/<userKey>
OneCallPerChannel(cs, requested, userKey) ==
    /\ Len(cs) = Len(requested)
    /\ \A k \in 1..Len(requested) :
           Cardinality({i \in 1..Len(cs) : cs[i].topic = generateTopicUrl(requested[k])})
             = Cardinality({i \in 1..Len(requested) : requested[i] = requested[k]})
    /\ \A i \in 1..Len(cs) :
           /\ cs[i].mode = "subscribe"
           /\ cs[i].callback[Len(cs[i].callback) - 1] = "/websub/"
           /\ cs[i].callback[Len(cs[i].callback)] = userKey

\* C20: each reconciliation of an accepted subscribe whose add or update
\* succeeded issues one hub subscribe call for every requested channel, new
\* or renewed, with the callback URL <base>/websub/<userKey> of the userKey
\* of the record, whichever of the calls fail; a reconciliation whose add or
\* update failed issues none.
C20_OneHubCallPerChannel ==
    [][(last'.op = "subscribe" /\ last'.status = 200)
       => LET req == last'.req
              requested == req.channelIds.items
              n == IF last'.body.success THEN Len(requested) ELSE 0
              mainCalls == SubSeq(last'.calls, 1, n)
              otherCalls == SubSeq(last'.calls, n + 1, Len(last'.calls))
              mid == AfterMain(store, req, last'.io1)
          IN  /\ Len(last'.calls) >= n
              /\ last'.body.success
                 => /\ OneCallPerChannel(mainCalls, requested, last'.body.userKey)
                    /\ RecordOf(mid, req.webhookUrl)[1].userKey = last'.body.userKey
              /\ IF last'.dual # <<>> /\ last'.dual[1].success
                 THEN /\ OneCallPerChannel(otherCalls, requested, last'.dual[1].userKey)
                      /\ RecordOf(store', last'.dual[1].productionWebhookUrl)[1].userKey
                            = last'.dual[1].userKey
                 ELSE otherCalls = <<>>]_vars

\* A subscribe with one new and one renewed channel has issued both calls
\* although the first one failed.
C20_Witness ==
    /\ Subscribed(last)
    /\ Len(last.body.newlySubscribedChannels) = 1
    /\ Len(last.body.resubscribedChannels) = 1
    /\ Len(last.calls) >= 2
    /\ ~last.calls[1].ok
    /\ last.calls[2].ok
    /\ last.calls[1].topic # last.calls[2].topic

----------------------------------------------------------------------------
\* The WebSub callback

Verification(l) == l.op = "websub" /\ l.req.method = "GET"
Notification(l) == l.op = "websub" /\ l.req.method = "POST"

\* The stored records whose userKey is userKey
RecordsOfKey(kv, userKey) == {i \in 1..Len(kv) : kv[i].userKey = userKey}

\* The record a notification for userKey resolves to: the first of them
ResolvedRecord(kv, userKey) ==
    kv[CHOOSE i \in RecordsOfKey(kv, userKey) : \A j \in RecordsOfKey(kv, userKey) : i <= j]

\* C21: a verification request is answered 200 with the challenge as its
\* body exactly when mode, topic and challenge are all present, whatever the
\* userKey and the topic and whether or not a record has that userKey; one
\* that misses any of the three is answered 400; in both cases the store is
\* not read or written, no hub call is made and nothing is forwarded.
C21_VerificationEchoesChallenge ==
    [][Verification(last')
       => LET req == last'.req
              complete == /\ req.mode # Missing
                          /\ req.topic # Missing
                          /\ req.challenge # Missing
          IN  /\ complete => (last'.status = 200 /\ last'.body = req.challenge)
              /\ ~complete => last'.status = 400
              /\ last'.reads = 0
              /\ last'.calls = <<>>
              /\ last'.forwards = <<>>
              /\ store' = store]_vars

\* A complete verification request for a userKey that no record has was
\* answered with its challenge while the store holds records.
C21_Witness ==
    /\ Verification(last)
    /\ last.status = 200
    /\ last.body = Challenge
    /\ last.req.userKey = UnknownKey
    /\ store # <<>>

\* C22: a notification for a userKey that no stored record has is POSTed to
\* no URL, and is answered 404 when its body parses (400 when it does not).
C22_NoRecordNoForward ==
    [][(Notification(last') /\ RecordsOfKey(store, last'.req.userKey) = {})
       => /\ last'.forwards = <<>>
          /\ last'.dispatches = <<>>
          /\ last'.status = (IF last'.req.parsed THEN 404 ELSE 400)]_vars

\* A notification was answered 404 for the userKey of a URL whose record was
\* deleted by an unsubscribe of all its channels, while another record is
\* stored.
C22_Witness ==
    /\ Notification(last)
    /\ last.req.parsed
    /\ last.status = 404
    /\ last.forwards = <<>>
    /\ \E u \in unsubscribedAll : generateUserKey(u) = last.req.userKey
    /\ store # <<>>

\* C23: a notification that parses and whose userKey resolves to a record is
\* answered 200 and POSTed to the record's webhook URL (and then to the
\* counterpart of that URL, if it has one) with the channel and the video of
\* the notification in the payload, whether its channel is one of the
\* record's channelIds, another one, or missing.
C23_ForwardsUnsubscribedChannel ==
    [][(/\ Notification(last')
        /\ last'.req.parsed
        /\ RecordsOfKey(store, last'.req.userKey) # {})
       => LET subscription == ResolvedRecord(store, last'.req.userKey)
              d == last'.dispatches
          IN  /\ last'.status = 200
              /\ Len(d) >= 1
              /\ d[1].webhookUrl = subscription.webhookUrl
              /\ last'.forwards =
                    (IF isN8nWebhook(subscription.webhookUrl)
                     THEN <<subscription.webhookUrl,
                            getN8nCounterpartUrl(subscription.webhookUrl)>>
                     ELSE <<subscription.webhookUrl>>)
              /\ \A i \in 1..Len(d) :
                     /\ d[i].payload.channel = last'.req.channelId
                     /\ d[i].payload.video = last'.req.videoId]_vars

\* A notification for a channel that the resolved record does not list was
\* answered 200 and POSTed to the record's webhook URL.
C23_Witness ==
    /\ Notification(last)
    /\ last.status = 200
    /\ last.req.channelId # Missing
    /\ \E i \in 1..Len(store) :
           /\ store[i].userKey = last.req.userKey
           /\ \A k \in 1..Len(store[i].channelIds) :
                  store[i].channelIds[k].id # last.req.channelId
           /\ Len(last.forwards) >= 1
           /\ last.forwards[1] = store[i].webhookUrl

\* C24: when the webhook URL of the resolved record has a counterpart, the
\* payload is POSTed to the counterpart too, whether or not a record is
\* stored for the counterpart, and the payload POSTed to the counterpart is
\* equal in every field, timestamp included, to the one POSTed to the
\* record's URL.
C24_CounterpartPayloadIdentical ==
    [][(/\ Notification(last')
        /\ last'.status = 200
        /\ isN8nWebhook(ResolvedRecord(store, last'.req.userKey).webhookUrl))
       => LET d == last'.dispatches
          IN  /\ Len(d) = 2
              /\ d[2].webhookUrl =
                    getN8nCounterpartUrl(ResolvedRecord(store, last'.req.userKey).webhookUrl)
              /\ d[2].payload = d[1].payload]_vars

\* C25: a notification that is forwarded is POSTed once to the record's URL
\* and, if that URL has a counterpart, once to the counterpart, whatever the
\* outcome of the first POST; no URL is POSTed twice; the response reports
\* the outcome of each POST under its URL.
C25_DispatchesIndependent ==
    [][(Notification(last') /\ last'.status = 200)
       => LET d == last'.dispatches
              url == ResolvedRecord(store, last'.req.userKey).webhookUrl
          IN  /\ Len(d) = (IF isN8nWebhook(url) THEN 2 ELSE 1)
              /\ d[1].webhookUrl = url
              /\ Len(d) = 2 => d[2].webhookUrl = getN8nCounterpartUrl(url)
              /\ \A i, j \in 1..Len(d) : d[i].webhookUrl = d[j].webhookUrl => i = j
              /\ last'.body.primaryForwardingResult =
                    [success |-> d[1].success, webhookUrl |-> d[1].webhookUrl]
              /\ Len(last'.body.counterpartForwardingResult) = Len(d) - 1
              /\ Len(d) = 2
                 => last'.body.counterpartForwardingResult[1] =
                       [success |-> d[2].success, webhookUrl |-> d[2].webhookUrl]]_vars

\* The POST to the record's URL failed, the POST to the counterpart was made
\* and succeeded, and the response reports both.
C25_Witness ==
    /\ Notification(last)
    /\ last.status = 200
    /\ Len(last.dispatches) = 2
    /\ ~last.dispatches[1].success
    /\ last.dispatches[2].success
    /\ ~last.body.primaryForwardingResult.success
    /\ last.body.counterpartForwardingResult[1].success

----------------------------------------------------------------------------
\* Overlapping requests

\* C26: the write of a subscribe saves the list the invocation read, with its
\* own record added or replaced, and nothing else: a record that another
\* invocation has stored since that read is discarded.  (The witness is the
\* lost update: two requests for two new URLs both answered with success,
\* one record stored.)
C26_LastWriterWins ==
    [][\A p \in Procs :
         (proc[p].pc = "write" /\ proc'[p].pc = "hub" /\ proc'[p].saved)
         => LET snapshot == proc[p].subscriptions
                url == proc[p].req.webhookUrl
            IN  /\ Len(store') =
                      Len(snapshot) + (IF proc[p].found = <<>> THEN 1 ELSE 0)
                /\ \A i \in 1..Len(snapshot) :
                       snapshot[i].webhookUrl # url => store'[i] = snapshot[i]
                /\ \A i \in 1..Len(store') :
                       i > Len(snapshot) => store'[i].webhookUrl = url]_vars

\* Two overlapping subscribe requests for two URLs that had no record have
\* both been answered "Subscribed successfully", both had read the empty
\* list, and the store holds one record.
C26_Witness ==
    /\ \A p \in Procs :
           /\ proc[p].pc = "done"
           /\ proc[p].success
           /\ proc[p].message = "Subscribed successfully"
           /\ proc[p].found = <<>>
           /\ proc[p].subscriptions = <<>>
    /\ proc[1].req.webhookUrl # proc[2].req.webhookUrl
    /\ Len(store) = 1

\* C27: also when subscribe requests overlap, the store never holds two
\* records with the same webhookUrl or the same userKey.
C27_OneRecordPerUrlConcurrent ==
    \A i, j \in 1..Len(store) :
        (store[i].webhookUrl = store[j].webhookUrl \/ store[i].userKey = store[j].userKey)
        => i = j

----------------------------------------------------------------------------
\* Keys and URLs

\* C28: the userKey of every stored record is the key generated from its
\* webhookUrl; a subscribe or an unsubscribe leaves the userKey of every URL
\* that keeps a record as it was, and stores no record under a URL or a key
\* that it was not asked for.
C28_UserKeyDerivedAndStable ==
    [][/\ \A j \in 1..Len(store') :
              store'[j].userKey = generateUserKey(store'[j].webhookUrl)
       /\ \A i \in 1..Len(store) : \A j \in 1..Len(store') :
              store'[j].webhookUrl = store[i].webhookUrl
              => store'[j].userKey = store[i].userKey
       /\ Subscribed(last')
          => last'.body.userKey = generateUserKey(last'.req.webhookUrl)]_vars

\* A subscribe has added channels to an existing record, and the record of
\* its URL has the key of that URL.
C28_Witness ==
    /\ Subscribed(last)
    /\ last.body.message = "Subscription updated successfully"
    /\ \E i \in 1..Len(store) :
           /\ store[i].webhookUrl = last.req.webhookUrl
           /\ store[i].userKey = generateUserKey(last.req.webhookUrl)
           /\ store[i].userKey = last.body.userKey
           /\ Len(store[i].channelIds) = 2

\* C29: for a URL that contains "webhook-test", the production URL is the
\* URL with its first "webhook-test" replaced by "webhook", and the
\* production URL does not contain "webhook-test".
C29_ToProductionRemovesTest ==
    (last.op = "production" /\ strIncludes(last.webhookUrl, WEBHOOK_TEST))
    => LET u == last.webhookUrl
           occ == {i \in 1..(Len(u) - 1) : <<u[i], u[i + 1]>> = WEBHOOK_TEST}
           first == CHOOSE i \in occ : \A k \in occ : i <= k
       IN  /\ last.productionWebhookUrl =
                 SubSeq(u, 1, first - 1) \o <<"webhook">> \o SubSeq(u, first + 2, Len(u))
           /\ ~last.isTestUrl
           /\ ~strIncludes(last.productionWebhookUrl, WEBHOOK_TEST)

\* C30: every request that waits for its outbound calls returns, also when
\* the remote side never answers: each call is ended by its timeout.
C30_EveryRequestReturns ==
    \A p \in Procs : (proc[p].pc = "waiting") ~> (proc[p].pc = "done")

----------------------------------------------------------------------------
\* Merging, failures and frames

\* C31: a subscribe that finds a record for its URL stores, as the record's
\* channel list, the previous list in its previous order followed by the
\* requested channels that the record did not list, in request order, each
\* added once; no listed channel is added again and none is removed.
C31_MergeAppendsNewChannels ==
    [][(Subscribed(last') /\ HasRecord(store, last'.req.webhookUrl))
       => LET u == last'.req.webhookUrl
              before == RecordOf(store, u)[1].channelIds
              after == RecordOf(store', u)[1].channelIds
              added == SetSpread(newChannels(last'.req.channelIds.items, before))
          IN  /\ HasRecord(store', u)
              /\ after = before \o added
              /\ Elems(before) \subseteq Elems(after)]_vars

\* C32: an update whose read finds no record with the userKey writes nothing
\* and returns false; the subscribe that had found the record before it was
\* deleted then answers with success = false and the failure message, makes
\* no hub call and leaves the store as it is.
C32_UpdateOfMissingRecordFails ==
    [][\A p \in Procs :
         /\ (/\ proc[p].pc = "write"
             /\ proc'[p].pc = "hub"
             /\ proc[p].found # <<>>
             /\ findIndexByUserKey(proc[p].subscriptions, proc[p].found[1].userKey) = 0)
            => (store' = store /\ ~proc'[p].saved)
         /\ (proc[p].pc = "hub" /\ proc'[p].pc = "done" /\ ~proc[p].saved)
            => /\ ~proc'[p].success
               /\ proc'[p].message = "Failed to save/update subscription"
               /\ proc'[p].calls = <<>>
               /\ store' = store]_vars

\* A subscribe that had found a record, and then read a list without it, has
\* answered with a failure and without a hub call, and the store holds no
\* record for its URL.
C32_Witness ==
    \E p \in Procs :
        /\ proc[p].pc = "done"
        /\ proc[p].found # <<>>
        /\ findIndexByUserKey(proc[p].subscriptions, proc[p].found[1].userKey) = 0
        /\ ~proc[p].success
        /\ proc[p].calls = <<>>
        /\ \A i \in 1..Len(store) : store[i].webhookUrl # proc[p].req.webhookUrl

\* C36: the write of a subscribe that found a record stores the list it read
\* with the record of that userKey replaced by the record as it was found,
\* its new channels appended: what another request has added to the record
\* since is overwritten.  The request answers with success and has issued
\* the hub calls for its channels.  (The witness is the stale overwrite: two
\* requests that each added a channel to the same record have both
\* succeeded, each with its hub call, and the record lists one of the two.)
C36_UpdateWritesFoundRecord ==
    [][\A p \in Procs :
         /\ (/\ proc[p].pc = "write"
             /\ proc'[p].pc = "hub"
             /\ proc[p].found # <<>>
             /\ proc'[p].saved)
            => LET existing == proc[p].found[1]
                   index == findIndexByUserKey(proc[p].subscriptions, existing.userKey)
                   added == newChannels(proc[p].req.channelIds.items, existing.channelIds)
               IN  store' = [proc[p].subscriptions EXCEPT ![index] =
                                [existing EXCEPT
                                    !.channelIds = SetSpread(existing.channelIds \o added)]]
         /\ (/\ proc[p].pc = "hub"
             /\ proc'[p].pc = "done"
             /\ proc[p].found # <<>>
             /\ proc[p].saved)
            => /\ proc'[p].success
               /\ [i \in 1..Len(proc'[p].calls) |-> proc'[p].calls[i].topic] =
                     [i \in 1..Len(proc[p].req.channelIds.items) |->
                         generateTopicUrl(proc[p].req.channelIds.items[i])]]_vars

\* Two requests for the same URL found the same record, each added a channel
\* of its own, both answered with success and each issued the hub call for
\* its channel; the stored record lists one of the two channels.
C36_Witness ==
    /\ \A p \in Procs :
           /\ proc[p].pc = "done"
           /\ proc[p].found # <<>>
           /\ proc[p].success
           /\ proc[p].message = "Subscription updated successfully"
           /\ Len(proc[p].calls) = 1
           /\ proc[p].calls[1].topic = generateTopicUrl(proc[p].req.channelIds.items[1])
    /\ proc[1].req.webhookUrl = proc[2].req.webhookUrl
    /\ proc[1].found = proc[2].found
    /\ proc[1].req.channelIds # proc[2].req.channelIds
    /\ RecordsFor(store, proc[1].req.webhookUrl) # {}
    /\ \A i \in RecordsFor(store, proc[1].req.webhookUrl) :
           Cardinality(Elems(store[i].channelIds)
                       \cap {proc[1].req.channelIds.items[1],
                             proc[2].req.channelIds.items[1]}) = 1

\* C33: an unsubscribe whose store write fails has issued the hub unsubscribe
\* call for every channel it removes, reports success = false, leaves the
\* record of its URL with the channels it had, and issues no hub call that
\* subscribes a channel again.
C33_HubCallsBeforeFailedWrite ==
    [][(/\ last'.op = "unsubscribe"
        /\ last'.status = 200
        /\ last'.io1 = WriteFails)
       => LET u == last'.req.webhookUrl
              removed == last'.body.unsubscribedChannels
          IN  /\ ~last'.body.success
              /\ last'.body.message = "Failed to update/remove subscription"
              /\ RecordOf(store', u) = RecordOf(store, u)
              /\ HasRecord(store', u)
              /\ removed # <<>>
              /\ Len(last'.calls) >= Len(removed)
              /\ \A i \in 1..Len(removed) :
                     /\ last'.calls[i].mode = "unsubscribe"
                     /\ last'.calls[i].topic = generateTopicUrl(removed[i])
                     /\ last'.calls[i].callback =
                           generateCallbackUrl(RecordOf(store, u)[1].userKey)
              /\ Len(last'.body.unsubscriptionResults) = Len(removed)
              /\ \A i \in 1..Len(last'.calls) : last'.calls[i].mode = "unsubscribe"]_vars

\* The write of an unsubscribe failed after the hub had accepted the
\* unsubscribe call for a channel that the stored record still lists.
C33_Witness ==
    /\ last.op = "unsubscribe"
    /\ last.status = 200
    /\ last.io1 = WriteFails
    /\ ~last.body.success
    /\ Len(last.calls) >= 1
    /\ last.calls[1].ok
    /\ HasRecord(store, last.req.webhookUrl)
    /\ last.body.unsubscribedChannels[1] \in ChannelsOf(store, last.req.webhookUrl)

\* The (callback, topic) pairs of the stored records
StoredPairs(kv) ==
    UNION {{<<generateCallbackUrl(kv[i].userKey), generateTopicUrl(c)>> :
               c \in Elems(kv[i].channelIds)} : i \in 1..Len(kv)}

NewRecord(webhookUrl, channelIds) ==
    [userKey |-> generateUserKey(webhookUrl), channelIds |-> channelIds,
     webhookUrl |-> webhookUrl]

\* C35: when the lookup of a reconciliation finds no record, the read of its
\* add fails and its write succeeds, the reconciliation reports success and
\* the stored list after it is the new record alone: the records stored
\* before are gone.  This holds for the reconciliation of the request's URL
\* and for the one of its production counterpart.
C35_FailedReadWipesStore ==
    [][(last'.op = "subscribe" /\ last'.status = 200)
       => LET req == last'.req
              u == req.webhookUrl
              production == getProductionWebhookUrl(u)
              between == AfterMain(store, req, last'.io1)
          IN  /\ (/\ ~last'.io1.read
                  /\ last'.io1.write
                  /\ findSubscriptionByWebhook(store, u, last'.io1.find) = <<>>)
                 => /\ last'.body.success
                    /\ last'.body.message = "Subscribed successfully"
                    /\ between = <<NewRecord(u, req.channelIds.items)>>
                    /\ last'.dual = <<>> => store' = between
              /\ (/\ last'.dual # <<>>
                  /\ ~last'.io2.read
                  /\ last'.io2.write
                  /\ findSubscriptionByWebhook(between, production, last'.io2.find) = <<>>)
                 => /\ last'.dual[1].success
                    /\ store' = <<NewRecord(production, req.channelIds.items)>>]_vars

\* A dual subscribe has answered with success for both URLs, the read of the
\* counterpart's add had failed, and the store holds the production record
\* alone: the record that the same request had stored for its own URL is
\* gone.
C35_Witness ==
    /\ last.op = "subscribe"
    /\ last.status = 200
    /\ last.body.success
    /\ last.body.message = "Subscribed successfully"
    /\ last.dual # <<>>
    /\ last.dual[1].success
    /\ ~last.io2.read
    /\ last.io1 = OkIO
    /\ Len(store) = 1
    /\ store[1].webhookUrl = getProductionWebhookUrl(last.req.webhookUrl)
    /\ ~HasRecord(store, last.req.webhookUrl)

\* The records of kv stored under other URLs than those of urls, in order
RecordsOutside(kv, urls) == SelectSeq(kv, LAMBDA sub : sub.webhookUrl \notin urls)

\* C37: with requests handled one at a time and a store that works, a
\* subscribe or an unsubscribe that was accepted for URL u leaves every
\* record stored under a URL other than u and the counterpart of u as it
\* was, and a subscribe for a URL that is not a test URL leaves every
\* record stored under a URL other than u as it was.
C37_OtherRecordsUnchanged ==
    [][(last'.op \in {"subscribe", "unsubscribe"} /\ last'.status = 200)
       => LET u == last'.req.webhookUrl
          IN  /\ RecordsOutside(store', {u, getN8nCounterpartUrl(u)}) =
                    RecordsOutside(store, {u, getN8nCounterpartUrl(u)})
              /\ (last'.op = "subscribe" /\ ~isTestWebhook(u))
                 => RecordsOutside(store', {u}) = RecordsOutside(store, {u})]_vars

\* An unsubscribe from all channels of the test URL has removed its record
\* and was mirrored to the production URL, and the record of a third URL is
\* stored.
C37_Witness ==
    /\ Unsubscribed(last)
    /\ last.req.allChannels
    /\ last.req.webhookUrl = UrlTest
    /\ last.dual # <<>>
    /\ ~HasRecord(store, UrlTest)
    /\ HasRecord(store, UrlHook)

----------------------------------------------------------------------------
\* Counterparts, double delivery and read-only handlers

\* C38: the counterpart of the counterpart of a URL that has a counterpart
\* is the URL itself, for the forwarder's mapping and for the mapping of the
\* unsubscribe handler.
C38_CounterpartInvolution ==
    (last.op = "counterpart" /\ last.counterpartUrl # NoUrl)
    => /\ last.back = last.webhookUrl
       /\ last.mirrorUrl # NoUrl => last.mirrorBack = last.webhookUrl

\* The same law for the URLs in which "webhook" occurs once.
C38_InvolutionOnSingleOccurrence ==
    (/\ last.op = "counterpart"
     /\ last.counterpartUrl # NoUrl
     /\ Cardinality({i \in 1..Len(last.webhookUrl) : last.webhookUrl[i] = "webhook"}) = 1
     /\ Cardinality({i \in 1..Len(last.webhookUrl) : last.webhookUrl[i] = "-test"}) <= 1)
    => /\ last.back = last.webhookUrl
       /\ last.mirrorBack = last.webhookUrl

\* The number of POSTs to url among the POSTs to forwards
PostsTo(forwards, url) == Cardinality({i \in 1..Len(forwards) : forwards[i] = url})

\* The store holds a record for test URL t and one for its production URL,
\* and both list the channel channelId
DualRecords(kv, t, channelId) ==
    /\ isTestWebhook(t)
    /\ \E i, j \in 1..Len(kv) :
          /\ kv[i].webhookUrl = t
          /\ kv[j].webhookUrl = getProductionWebhookUrl(t)
          /\ \E a \in 1..Len(kv[i].channelIds) : kv[i].channelIds[a].id = channelId
          /\ \E b \in 1..Len(kv[j].channelIds) : kv[j].channelIds[b].id = channelId

\* The last two requests handled were the notifications of one video of
\* channel channelId, one to the callback of t's record and one to the
\* callback of the record of t's production URL, in either order
OneNotificationEach(l, t, channelId) ==
    /\ Notification(l)
    /\ l.status = 200
    /\ l.before # <<>>
    /\ l.req.channelId = channelId
    /\ l.before[1].channelId = channelId
    /\ l.before[1].videoId = l.req.videoId
    /\ {l.req.userKey, l.before[1].userKey} =
          {generateUserKey(t), generateUserKey(getProductionWebhookUrl(t))}
    /\ l.req.userKey # l.before[1].userKey

\* C39: when the store holds a record for a test URL and a record for its
\* production URL that list the same channel, and one notification of that
\* channel has been handled for the callback of each of the two records,
\* each of the two URLs has been POSTed the video twice: once by each of the
\* two handlings.
C39_EachUrlPostedTwice ==
    \A t \in {UrlTest}, c \in {ChanA.id} :
        (DualRecords(store, t, c) /\ OneNotificationEach(last, t, c))
        => \A url \in {t, getProductionWebhookUrl(t)} :
              /\ PostsTo(last.forwards, url) = 1
              /\ PostsTo(last.before[1].forwards, url) = 1
              /\ \A i \in 1..Len(last.dispatches) :
                    /\ last.dispatches[i].payload.video = last.req.videoId
                    /\ last.dispatches[i].payload.channel = c

\* The two records of a dual subscribe are stored, the notification to the
\* callback of the test URL's record was handled and then the one to the
\* callback of the production URL's record, which was POSTed to the
\* production URL and to the test URL.
C39_Witness ==
    /\ DualRecords(store, UrlTest, ChanA.id)
    /\ OneNotificationEach(last, UrlTest, ChanA.id)
    /\ last.req.userKey = generateUserKey(UrlProd)
    /\ last.forwards = <<UrlProd, UrlTest>>
    /\ last.before[1].forwards = <<UrlTest, UrlProd>>

\* The callback and the status query
ReadOnly(l) == l.op \in {"websub", "status"}

\* C40: handling a verification request, a notification or a status query
\* leaves the stored list and the hub's subscriptions as they were and
\* issues no hub call with mode subscribe or unsubscribe, whatever the
\* request is answered with and whatever becomes of the POSTs to the
\* webhooks.
C40_ReadOnlyHandlers ==
    [][ReadOnly(last')
       => /\ store' = store
          /\ hub' = hub
          /\ \A i \in 1..Len(last'.calls) :
                last'.calls[i].mode \notin {"subscribe", "unsubscribe"}]_vars

\* A status query for the test URL was answered 200 with the status of its
\* record and of the production URL's record, after one hub request for the
\* details of each record's channel.
C40_Witness ==
    /\ last.op = "status"
    /\ last.status = 200
    /\ last.req.webhookUrl = UrlTest
    /\ last.primary # <<>>
    /\ last.related # <<>>
    /\ Len(last.calls) = 2
    /\ Len(store) = 2

====
